---- MODULE Spec2Model ----
(***************************************************************************)
(* A model of the batching and prompt/response correlation engine of       *)
(* cerebras_code_scanner.py: the file batcher (get_optimal_batch_size),    *)
(* the batch scan (scan_file_batch), the single-file scan (scan_file),     *)
(* the response segmenter (extract_file_section) and the response parser   *)
(* (parse_batch_response), the report (format_results_markdown), the       *)
(* prompt selection (get_prompts_for_language) and the entry point (main). *)
(* Beside them: the prompt composer (get_batch_formatted_prompt), the      *)
(* token estimate (estimate_tokens), the CodeAnalyzer of                   *)
(* scanner/code_analyzer.py with chunk_code of scanner/utils.py, and the   *)
(* Streamlit front end (ui/app.py).                                        *)
(*                                                                         *)
(* A file path is a natural number; the file system `fs` gives, for each   *)
(* path, whether open()/read() succeeds and the number of characters of    *)
(* its content.  A text (a gateway response) is a sequence of tokens, each *)
(* token standing for the characters it spells.                            *)
(***************************************************************************)
EXTENDS Integers, Sequences, FiniteSets, TLC

\* ------------------------------------------------------------------ bounds
\* Longest file list handed to get_optimal_batch_size.
MaxFiles == 3

\* Content sizes (characters) a file may have: costs 100, 200, 2000, 2100, 4100.
Sizes == {0, 400, 7600, 8000, 16000}

\* Values of the max_tokens parameter: effective budgets -1000, 2000, 4000.
MaxTokensChoices == {1000, 4000, 6000}

\* ---------------------------------------------------------------- helpers
RECURSIVE Concat(_)
\* The concatenation of a sequence of sequences.
Concat(ss) == IF ss = <<>> THEN <<>> ELSE Head(ss) \o Concat(Tail(ss))

\* The elements of a sequence.
Range(s) == {s[k] : k \in DOMAIN s}

\* s is a prefix of t.
IsPrefix(s, t) == Len(s) <= Len(t) /\ SubSeq(t, 1, Len(s)) = s

RECURSIVE SumSeq(_)
SumSeq(s) == IF s = <<>> THEN 0 ELSE Head(s) + SumSeq(Tail(s))

\* ------------------------------------------------------------------- state
VARIABLES
    fs,                   \* file system: path -> [readable, size]
    files,                \* get_optimal_batch_size: the parameter `files`
    max_tokens,           \* get_optimal_batch_size: the parameter `max_tokens`
    gpc,                  \* get_optimal_batch_size: "idle" | "loop" | "done"
    gi,                   \* get_optimal_batch_size: files consumed by the for loop
    batches,              \* get_optimal_batch_size: local `batches`
    current_batch,        \* get_optimal_batch_size: local `current_batch`
    current_token_count,  \* get_optimal_batch_size: local `current_token_count`
    entry,                \* the function being run: "batch" (scan_file_batch),
                          \* "file" (scan_file) or "none"
    file_batch,           \* scan_file_batch: `file_batch`; scan_file: <<file_path>>
    categories,           \* parameter `categories` (<<>> stands for None / [])
    subcategories,        \* parameter `subcategories` (<<>> stands for None / [])
    spc,                  \* position in the running scan function
    file_info,            \* scan_file_batch: `file_info` of combine_file_contents
    combined_content,     \* scan_file_batch: `combined_content`
    ci,                   \* scan_file_batch: categories consumed by the for loop
    subcategory_batches,  \* scan_file_batch: `subcategory_batches`; scan_file: `prompt_batches`
    bi,                   \* `batch_idx`: batches consumed by the inner for loop
    subcategory_details,  \* scan_file_batch: `subcategory_details` of the current batch
    response,             \* what analyze_with_cerebras returned last
    gateway_error,        \* the failure of the last gateway call, "none" if it answered
    batch_results,        \* scan_file_batch: `batch_results`
    result,               \* scan_file: `result` (None, or the dict with "analyses")
    calls,                \* the calls of analyze_with_cerebras made so far
    items,                \* split_into_batches: the parameter `items`
    max_batch_size,       \* split_into_batches: the parameter `max_batch_size`
    split_pc,             \* split_into_batches: "idle" | "call" | "returned" | "raised"
    split_result,         \* split_into_batches: the list it returned
    seg_fn,               \* the segmenter function called: "file" (extract_file_section),
                          \* "subcategory" (extract_subcategory_section) or "none"
    seg_content,          \* segmenter: the parameter `content`
    seg_name,             \* segmenter: the parameter `file_marker` / `subcategory_name`
    seg_pc,               \* segmenter: "idle" | "call" | "returned"
    seg_section,          \* segmenter: the section returned (NotFound for None)
    report_results,       \* format_results_markdown: the parameter `results`
    report_pc,            \* format_results_markdown: "idle" | "call" | "returned"
    markdown,             \* format_results_markdown: the text returned
    prompt_categories,    \* get_prompts_for_language: the parameter `categories`
    prompt_subcategories, \* get_prompts_for_language: the parameter `subcategories`
    prompts_pc,           \* get_prompts_for_language: "idle" | "call" | "returned"
    language_prompts,     \* get_prompts_for_language: the list it returned
    prompt_repository,    \* get_prompts_for_language: the parameter `repository`,
                          \* "loaded" or "None"
    repo_file,            \* the file named by --repository: "ok" | "missing" | "malformed"
    api_key,              \* initialize_client finds an API key
    scan_path,            \* what args.path names: [kind, files]
    arg_categories,       \* main: `categories` parsed from --categories
    mpc,                  \* main: "idle" | "start" | "dispatch" | "walk" | "format" | "exited"
    repository,           \* main: `repository`: "unset" | "loaded" | "built-in" | "None"
    wi,                   \* scan_directory: files consumed by the walk
    scanned,              \* the files scan_file was called on, in call order
    main_result,          \* main: `result` (the files that gave a scan result)
    exit_code,            \* the exit status of the process, -1 while it runs
    exit_cause,           \* what ended the process
    comp_fn,              \* the composer run: "function" (get_batch_formatted_prompt), "inline" (the composition in scan_file_batch) or "none"
    comp_repository,      \* composer: the parameter `repository`, "loaded" or "None"
    comp_category,        \* composer: the parameter `category`
    comp_ids,             \* composer: `subcategory_ids` / `subcategory_batch`
    comp_pc,              \* composer: "idle", "call" or "returned"
    comp_prompt,          \* composer: the prompt text, [none, text]
    comp_details,         \* composer: `subcategory_details`
    est_text,             \* estimate_tokens: the parameter `text`, a sequence of characters
    est_pc,               \* estimate_tokens: "idle", "call" or "returned"
    est_result,           \* estimate_tokens: the number returned
    an_files,             \* CodeAnalyzer.scan_codebase: the files the glob yields, each [readable, chunks]
    an_prompts,           \* CodeAnalyzer.scan_file: `prompts`
    an_pc,                \* CodeAnalyzer: "idle", "files", "chunks", "prompts" or "done"
    an_fi,                \* scan_codebase: files consumed by the loop
    an_chi,               \* scan_file: chunks consumed by the loop
    an_pi,                \* _process_code_chunk: prompts consumed by the loop
    an_calls,             \* the calls of _call_cerebras_api made so far
    an_chunk_issues,      \* _process_code_chunk: `issues`
    an_file_issues,       \* scan_file: `issues`
    an_results,           \* scan_codebase: `results`
    ui_code,              \* ui main: the text area `code`
    analysis_type,        \* ui main: the categories selected in the multiselect, in selection order
    ui_pc,                \* ui main: "idle", "pressed", "tasks" or "done"
    tasks,                \* ui main: `tasks`, the coroutine objects created, by category key
    ui_shown,             \* ui main: the elements written to the page
    par_prompts,          \* parse_batch_response: prompts
    par_response,         \* parse_batch_response: response_text
    par_pc,               \* parse_batch_response: "idle", "call" or "returned"
    par_analyses,         \* parse_batch_response: the list returned
    chk_code,             \* chunk_code: code, a sequence of characters
    chk_max_tokens,       \* chunk_code: max_tokens
    chk_pc,               \* chunk_code: "idle", "call" or "returned"
    chk_chunks            \* chunk_code: the list returned

gobVars == <<files, max_tokens, gpc, gi, batches, current_batch, current_token_count>>
scanVars == <<entry, file_batch, categories, subcategories, spc, file_info,
              combined_content, ci, subcategory_batches, bi, subcategory_details,
              response, gateway_error, batch_results, result, calls>>
splitVars == <<items, max_batch_size, split_pc, split_result>>

segVars == <<seg_fn, seg_content, seg_name, seg_pc, seg_section>>

reportVars == <<report_results, report_pc, markdown>>

promptVars == <<prompt_categories, prompt_subcategories, prompts_pc, language_prompts,
               prompt_repository>>

mainVars == <<repo_file, api_key, scan_path, arg_categories, mpc, repository, wi,
              scanned, main_result, exit_code, exit_cause>>

composerVars == <<comp_fn, comp_repository, comp_category, comp_ids, comp_pc, comp_prompt, comp_details>>

tokensVars == <<est_text, est_pc, est_result>>

analyzerVars == <<an_files, an_prompts, an_pc, an_fi, an_chi, an_pi, an_calls, an_chunk_issues, an_file_issues, an_results>>

uiVars == <<ui_code, analysis_type, ui_pc, tasks, ui_shown>>

parseVars == <<par_prompts, par_response, par_pc, par_analyses>>

chunkVars == <<chk_code, chk_max_tokens, chk_pc, chk_chunks>>

\* The state of the functions that the batcher and the scans leave alone.
otherVars == <<splitVars, segVars, reportVars, promptVars, mainVars,
    composerVars,
    tokensVars,
    analyzerVars,
    uiVars,
    parseVars,
    chunkVars>>

\* The state split_into_batches leaves alone.
exceptSplit == <<fs, gobVars, scanVars, segVars, reportVars, promptVars, mainVars,
    composerVars,
    tokensVars,
    analyzerVars,
    uiVars,
    parseVars,
    chunkVars>>

\* The state the segmenter functions leave alone.
exceptSeg == <<fs, gobVars, scanVars, splitVars, reportVars, promptVars, mainVars,
    composerVars,
    tokensVars,
    analyzerVars,
    uiVars,
    parseVars,
    chunkVars>>

\* The state format_results_markdown leaves alone.
exceptReport == <<fs, gobVars, scanVars, splitVars, segVars, promptVars, mainVars,
    composerVars,
    tokensVars,
    analyzerVars,
    uiVars,
    parseVars,
    chunkVars>>

\* The state get_prompts_for_language leaves alone.
exceptPrompts == <<fs, gobVars, scanVars, splitVars, segVars, reportVars, mainVars,
    composerVars,
    tokensVars,
    analyzerVars,
    uiVars,
    parseVars,
    chunkVars>>

\* The state main leaves alone.
exceptMain == <<fs, gobVars, scanVars, splitVars, segVars, reportVars, promptVars,
    composerVars,
    tokensVars,
    analyzerVars,
    uiVars,
    parseVars,
    chunkVars>>

\* The state the Composer actions leave alone.
exceptComposer == <<fs, gobVars, scanVars, splitVars, segVars, reportVars, promptVars, mainVars,
    tokensVars,
    analyzerVars,
    uiVars,
    parseVars,
    chunkVars>>

\* The state the Tokens actions leave alone.
exceptTokens == <<fs, gobVars, scanVars, splitVars, segVars, reportVars, promptVars, mainVars, composerVars,
    analyzerVars,
    uiVars,
    parseVars,
    chunkVars>>

\* The state the Analyzer actions leave alone.
exceptAnalyzer == <<fs, gobVars, scanVars, splitVars, segVars, reportVars, promptVars, mainVars, composerVars, tokensVars,
    uiVars,
    parseVars,
    chunkVars>>

\* The state the Ui actions leave alone.
exceptUi == <<fs, gobVars, scanVars, splitVars, segVars, reportVars, promptVars, mainVars, composerVars, tokensVars, analyzerVars,
    parseVars,
    chunkVars>>

\* The state the Parse actions leave alone.
exceptParse == <<fs, gobVars, scanVars, splitVars, segVars, reportVars, promptVars, mainVars, composerVars, tokensVars, analyzerVars, uiVars,
    chunkVars>>

\* The state the Chunk actions leave alone.
exceptChunk == <<fs, gobVars, scanVars, splitVars, segVars, reportVars, promptVars, mainVars, composerVars, tokensVars, analyzerVars, uiVars, parseVars>>

vars == <<fs, gobVars, scanVars, otherVars>>

\* ------------------------------------------------- get_optimal_batch_size
\* A faulty variant of estimate_tokens: the quotient is rounded up.
estimate_tokens_rounded_up(text_len) == (text_len + 3) \div 4

\* estimate_tokens(text) = len(text) // 4; the text is given by its length.
estimate_tokens(text_len) == text_len \div 4

\* A faulty variant of AvailableTokens: the 2000 reserved tokens are not subtracted.
AvailableTokensNoReserve(mt) == mt

\* available_tokens = max_tokens - 2000
AvailableTokens(mt) == mt - 2000

\* file_with_markers_token_count = estimate_tokens(content) + 100
FileWithMarkersTokenCount(text_len) == estimate_tokens(text_len) + 100

\* A faulty variant of ExceedsLimit: a file never joins a batch that has a file.
ExceedsLimitAlways(cb, ctc, cost, mt) == cb # <<>>

\* A faulty variant of ExceedsLimit: >= instead of >, a batch that fills the budget
\* exactly is closed too early.
ExceedsLimitOffByOne(cb, ctc, cost, mt) == cb # <<>> /\ ctc + cost >= AvailableTokens(mt)

\* The condition of the `if` that closes the current batch.
ExceedsLimit(cb, ctc, cost, mt) == cb # <<>> /\ ctc + cost > AvailableTokens(mt)

\* A faulty variant of StartNewBatch: the closed batch is not appended to the result.
StartNewBatchDropsClosed(st, path, cost) ==
    [batches |-> st.batches,
     current_batch |-> <<path>>,
     current_token_count |-> cost]

\* A faulty variant of StartNewBatch: the running total of the new batch starts at 0,
\* the file that opens it is not counted.
StartNewBatchForgetsCount(st, path, cost) ==
    [batches |-> Append(st.batches, st.current_batch),
     current_batch |-> <<path>>,
     current_token_count |-> 0]

\* The `if` branch: close the current batch, start a new one with the file.
StartNewBatch(st, path, cost) ==
    [batches |-> Append(st.batches, st.current_batch),
     current_batch |-> <<path>>,
     current_token_count |-> cost]

\* The `else` branch: the file joins the current batch.
AppendToBatch(st, path, cost) ==
    [batches |-> st.batches,
     current_batch |-> Append(st.current_batch, path),
     current_token_count |-> st.current_token_count + cost]

\* A faulty variant of ReadErrorBatch: the unreadable file is dropped.
ReadErrorBatchDrops(st, path) ==
    [batches |-> st.batches,
     current_batch |-> st.current_batch,
     current_token_count |-> st.current_token_count]

\* The `except` branch: open()/read() raised; the file becomes a batch of its own.
ReadErrorBatch(st, path) ==
    [batches |-> Append(st.batches, <<path>>),
     current_batch |-> st.current_batch,
     current_token_count |-> st.current_token_count]

\* One iteration of `for file_path in files`.
GobStep(st, path, fsys, mt) ==
    IF ~fsys[path].readable THEN ReadErrorBatch(st, path)
    ELSE LET cost == FileWithMarkersTokenCount(fsys[path].size) IN
         IF ExceedsLimit(st.current_batch, st.current_token_count, cost, mt)
         THEN StartNewBatch(st, path, cost)
         ELSE AppendToBatch(st, path, cost)

\* After the loop: `if current_batch: batches.append(current_batch)`.
GobFlush(st) ==
    IF st.current_batch # <<>> THEN Append(st.batches, st.current_batch) ELSE st.batches

GobInitState == [batches |-> <<>>, current_batch |-> <<>>, current_token_count |-> 0]

RECURSIVE GobLoop(_, _, _, _)
GobLoop(st, fl, fsys, mt) ==
    IF fl = <<>> THEN st ELSE GobLoop(GobStep(st, Head(fl), fsys, mt), Tail(fl), fsys, mt)

\* The value get_optimal_batch_size(files, language, max_tokens) returns.
get_optimal_batch_size(fl, fsys, mt) == GobFlush(GobLoop(GobInitState, fl, fsys, mt))

GobState == [batches |-> batches, current_batch |-> current_batch,
             current_token_count |-> current_token_count]

\* The loop meets a file it cannot read.
GobReadError ==
    /\ gpc = "loop" /\ gi < Len(files)
    /\ ~fs[files[gi + 1]].readable
    /\ LET st == GobStep(GobState, files[gi + 1], fs, max_tokens) IN
        /\ batches' = st.batches
        /\ current_batch' = st.current_batch
        /\ current_token_count' = st.current_token_count
    /\ gi' = gi + 1
    /\ UNCHANGED <<otherVars, fs, files, max_tokens, gpc, scanVars>>

\* The loop meets a readable file that does not fit: a new batch is started.
GobNewBatch ==
    /\ gpc = "loop" /\ gi < Len(files)
    /\ fs[files[gi + 1]].readable
    /\ ExceedsLimit(current_batch, current_token_count,
                    FileWithMarkersTokenCount(fs[files[gi + 1]].size), max_tokens)
    /\ LET st == GobStep(GobState, files[gi + 1], fs, max_tokens) IN
        /\ batches' = st.batches
        /\ current_batch' = st.current_batch
        /\ current_token_count' = st.current_token_count
    /\ gi' = gi + 1
    /\ UNCHANGED <<otherVars, fs, files, max_tokens, gpc, scanVars>>

\* The loop meets a readable file that joins the current batch.
GobAppend ==
    /\ gpc = "loop" /\ gi < Len(files)
    /\ fs[files[gi + 1]].readable
    /\ ~ExceedsLimit(current_batch, current_token_count,
                     FileWithMarkersTokenCount(fs[files[gi + 1]].size), max_tokens)
    /\ LET st == GobStep(GobState, files[gi + 1], fs, max_tokens) IN
        /\ batches' = st.batches
        /\ current_batch' = st.current_batch
        /\ current_token_count' = st.current_token_count
    /\ gi' = gi + 1
    /\ UNCHANGED <<otherVars, fs, files, max_tokens, gpc, scanVars>>

\* The loop is over: the trailing batch is flushed and the list returned.
GobReturn ==
    /\ gpc = "loop" /\ gi = Len(files)
    /\ batches' = GobFlush(GobState)
    /\ gpc' = "done"
    /\ UNCHANGED <<otherVars, fs, files, max_tokens, gi, current_batch, current_token_count, scanVars>>

\* No scan function is running.
ScanIdle ==
    /\ entry = "none" /\ file_batch = <<>> /\ categories = <<>> /\ subcategories = <<>>
    /\ spc = "idle" /\ file_info = <<>> /\ combined_content = <<>> /\ ci = 0
    /\ subcategory_batches = <<>> /\ bi = 0 /\ subcategory_details = <<>>
    /\ response = [ok |-> FALSE, text |-> <<>>] /\ gateway_error = "none"
    /\ batch_results = <<>>
    /\ result = [none |-> TRUE, analyses |-> <<>>] /\ calls = <<>>

\* split_into_batches is not running.
SplitIdle ==
    items = <<>> /\ max_batch_size = 3 /\ split_pc = "idle" /\ split_result = <<>>

\* No segmenter function is running.
SegIdle ==
    /\ seg_fn = "none" /\ seg_content = <<>> /\ seg_name = <<>> /\ seg_pc = "idle"
    /\ seg_section = [found |-> FALSE, text |-> <<>>]

\* format_results_markdown is not running.
ReportIdle == report_results = <<>> /\ report_pc = "idle" /\ markdown = <<>>

\* get_prompts_for_language is not running.
PromptsIdle ==
    /\ prompt_categories = <<>> /\ prompt_subcategories = <<>>
    /\ prompts_pc = "idle" /\ language_prompts = <<>> /\ prompt_repository = "loaded"

\* main is not running.
MainIdle ==
    /\ repo_file = "ok" /\ api_key = TRUE /\ scan_path = [kind |-> "absent", files |-> <<>>]
    /\ arg_categories = <<>> /\ mpc = "idle" /\ repository = "unset" /\ wi = 0
    /\ scanned = <<>> /\ main_result = <<>> /\ exit_code = -1 /\ exit_cause = "none"

\* No Composer action has run.
ComposerIdle ==
    /\ comp_fn = "none"
    /\ comp_repository = "loaded"
    /\ comp_category = "security"
    /\ comp_ids = <<>>
    /\ comp_pc = "idle"
    /\ comp_prompt = [none |-> TRUE, text |-> <<>>]
    /\ comp_details = <<>>

\* No Tokens action has run.
TokensIdle ==
    /\ est_text = <<>>
    /\ est_pc = "idle"
    /\ est_result = 0

\* No Analyzer action has run.
AnalyzerIdle ==
    /\ an_files = <<>>
    /\ an_prompts = <<>>
    /\ an_pc = "idle"
    /\ an_fi = 0
    /\ an_chi = 0
    /\ an_pi = 0
    /\ an_calls = <<>>
    /\ an_chunk_issues = <<>>
    /\ an_file_issues = <<>>
    /\ an_results = [issues |-> <<>>, files_scanned |-> 0, total_issues |-> 0]

\* No Ui action has run.
UiIdle ==
    /\ ui_code = <<>>
    /\ analysis_type = <<>>
    /\ ui_pc = "idle"
    /\ tasks = <<>>
    /\ ui_shown = <<>>

\* No Parse action has run.
ParseIdle ==
    /\ par_prompts = <<>>
    /\ par_response = <<>>
    /\ par_pc = "idle"
    /\ par_analyses = <<>>

\* No Chunk action has run.
ChunkIdle ==
    /\ chk_code = <<>>
    /\ chk_max_tokens = 0
    /\ chk_pc = "idle"
    /\ chk_chunks = <<>>

\* None of the other functions is running.
OthersIdle == SplitIdle /\ SegIdle /\ ReportIdle /\ PromptsIdle /\ MainIdle
    /\ ComposerIdle
    /\ TokensIdle
    /\ AnalyzerIdle
    /\ UiIdle
    /\ ParseIdle
    /\ ChunkIdle

\* get_optimal_batch_size is not running.
BatcherIdle ==
    /\ files = <<>> /\ max_tokens = 6000 /\ gpc = "idle" /\ gi = 0
    /\ batches = <<>> /\ current_batch = <<>> /\ current_token_count = 0

\* The file systems in which the paths 1..k hold files of the given sizes (any
\* of them possibly unreadable) and no other path exists.
FileSystems(k, sizes) ==
    {f \in [1..MaxFiles -> [readable : BOOLEAN, size : sizes \cup {0}]] :
        \A p \in 1..MaxFiles : p > k => f[p] = [readable |-> FALSE, size |-> 0]}

BatcherInit ==
    /\ \E k \in 0..MaxFiles :
          /\ files = [j \in 1..k |-> j]
          /\ fs \in FileSystems(k, Sizes)
    /\ max_tokens \in MaxTokensChoices
    /\ gpc = "loop" /\ gi = 0
    /\ batches = <<>> /\ current_batch = <<>> /\ current_token_count = 0
    /\ ScanIdle
    /\ OthersIdle

BatcherNext == GobReadError \/ GobNewBatch \/ GobAppend \/ GobReturn

BatcherSpec == BatcherInit /\ [][BatcherNext]_vars

\* -------------------------------------------------------------- texts
\* A text is a sequence of tokens.  "\n", " ", "#", ":" and the digits are the
\* characters themselves; "FILE_" / "file_" spell the five characters of a file
\* marker's stem in upper / lower case, "Files" / "files" are the only other
\* words with the letters FILE; every other token is a word without whitespace,
\* '#', ':' or the letters FILE.

\* str.lower() of a token (re.IGNORECASE compares case-folded characters).
Lower(tok) ==
    IF tok = "FILE_" THEN "file_"
    ELSE IF tok = "Files" THEN "files"
    ELSE IF tok = "SQL" THEN "sql"
    ELSE IF tok = "Injection" THEN "injection"
    ELSE IF tok = "Auth" THEN "auth"
    ELSE tok

\* \s of the regular expressions, and what str.strip() removes.
IsSpace(tok) == tok \in {" ", "\n"}

DigitTokens == <<"0", "1", "2", "3", "4", "5", "6", "7", "8", "9">>

IsDigit(tok) == \E d \in DOMAIN DigitTokens : DigitTokens[d] = tok

RECURSIVE Decimal(_)
\* str(n) for n >= 0.
Decimal(n) == IF n < 10 THEN <<DigitTokens[n + 1]>>
              ELSE Decimal(n \div 10) \o <<DigitTokens[(n % 10) + 1]>>

\* f"FILE_{idx+1}"
FileMarker(n) == <<"FILE_">> \o Decimal(n)

RECURSIVE LStrip(_)
LStrip(t) == IF t # <<>> /\ IsSpace(Head(t)) THEN LStrip(Tail(t)) ELSE t

RECURSIVE RStrip(_)
RStrip(t) == IF t # <<>> /\ IsSpace(t[Len(t)]) THEN RStrip(SubSeq(t, 1, Len(t) - 1)) ELSE t

\* str.strip()
Strip(t) == RStrip(LStrip(t))

\* The literal lit stands in t at position p (1-based), compared without case.
MatchesAt(t, p, lit) ==
    /\ p >= 1 /\ p + Len(lit) - 1 <= Len(t)
    /\ \A k \in DOMAIN lit : Lower(t[p + k - 1]) = Lower(lit[k])

\* The literal lit stands in t at position p, compared exactly (str.find).
EqualsAt(t, p, lit) ==
    /\ p >= 1 /\ p + Len(lit) - 1 <= Len(t)
    /\ \A k \in DOMAIN lit : t[p + k - 1] = lit[k]

\* The smallest element of a non-empty set of integers.
Min(S) == CHOOSE x \in S : \A y \in S : x <= y

\* First position >= p of t that holds no '#' (Len(t) + 1 when there is none).
HashRunEnd(t, p) == Min({q \in p..(Len(t) + 1) : q = Len(t) + 1 \/ t[q] # "#"})

\* First position >= p of t that holds no whitespace.
SpaceRunEnd(t, p) == Min({q \in p..(Len(t) + 1) : q = Len(t) + 1 \/ ~IsSpace(t[q])})

\* `#+\s*<lit>` matched at position p: the position after the match, 0 if none.
HeadingAt(t, p, lit) ==
    LET h == HashRunEnd(t, p)
        w == SpaceRunEnd(t, h)
    IN  IF p <= Len(t) /\ h > p /\ MatchesAt(t, w, lit) THEN w + Len(lit) ELSE 0

\* The characters of the token start with FILE, compared without case.
StartsWithFile(tok) == Lower(tok) \in {"file_", "files"}

\* `#+\s*FILE` matched at position p.
FileWordHeadingAt(t, p) ==
    LET h == HashRunEnd(t, p)
        w == SpaceRunEnd(t, h)
    IN  p <= Len(t) /\ h > p /\ w <= Len(t) /\ StartsWithFile(t[w])

\* The lookahead `(?=\n#+\s*FILE|\Z)` at position e.
FileHeadingAhead(t, e) ==
    \/ e = Len(t) + 1
    \/ e <= Len(t) /\ t[e] = "\n" /\ FileWordHeadingAt(t, e + 1)

\* The lookahead `(?=\n.*?FILE|\Z)` at position e (DOTALL: `.` crosses lines).
FileWordAhead(t, e) ==
    \/ e = Len(t) + 1
    \/ e <= Len(t) /\ t[e] = "\n" /\ \E k \in (e + 1)..Len(t) : StartsWithFile(t[k])

\* Where the heading of `(?:^|\n)#+\s*<marker>` starts for a match that starts
\* at position s: at s itself when s = 1 (the `^` alternative, tried first),
\* after the newline at s otherwise; 0 if there is no match at s.
HeadingStart(t, s, marker) ==
    IF s = 1 /\ HeadingAt(t, 1, marker) # 0 THEN 1
    ELSE IF s <= Len(t) /\ t[s] = "\n" /\ HeadingAt(t, s + 1, marker) # 0 THEN s + 1
    ELSE 0

NotFound == [found |-> FALSE, text |-> <<>>]

Found(t) == [found |-> TRUE, text |-> t]

\* re.search(rf"(?:^|\n)#+\s*{file_marker}.*?(?=\n#+\s*FILE|\Z)", content,
\* re.IGNORECASE | re.DOTALL): the leftmost match, its lazy `.*?` as short as
\* the lookahead allows; the value is match.group(0).
FileHeadingSearch(content, marker) ==
    LET starts == {s \in 1..(Len(content) + 1) : HeadingStart(content, s, marker) # 0}
    IN  IF starts = {} THEN NotFound
        ELSE LET s == Min(starts)
                 q == HeadingAt(content, HeadingStart(content, s, marker), marker)
                 e == Min({x \in q..(Len(content) + 1) : FileHeadingAhead(content, x)})
             IN  Found(SubSeq(content, s, e - 1))

\* re.search(rf"(?:^|\n).*?{file_marker}.*?(?=\n.*?FILE|\Z)", ...): the match
\* starts at the start of the text (`^`), runs lazily to the first occurrence of
\* the marker and from there to the first newline with FILE after it.
FileLooseSearch(content, marker) ==
    LET occ == {p \in 1..Len(content) : MatchesAt(content, p, marker)}
    IN  IF occ = {} THEN NotFound
        ELSE LET q == Min(occ) + Len(marker)
                 e == Min({x \in q..(Len(content) + 1) : FileWordAhead(content, x)})
             IN  Found(SubSeq(content, 1, e - 1))

\* extract_file_section(content, file_marker): the section, or None (NotFound).
extract_file_section(content, marker) ==
    LET m1 == FileHeadingSearch(content, marker)
        m2 == FileLooseSearch(content, marker)
    IN  IF m1.found THEN Found(Strip(m1.text))
        ELSE IF m2.found THEN Found(Strip(m2.text))
        ELSE NotFound

\* ------------------------------------------- extract_subcategory_section
\* A subcategory name is a text too.  "*" and "-" are the characters
\* themselves, "x" is a one-letter word; no word of a text is another word
\* with a character put before or after it.

\* The tokens that are one character long.
IsSingleChar(tok) == tok \in {"#", " ", "\n", ":", "*", "-", "x"} \/ IsDigit(tok)

\* The tokens made of \w characters only (letters, digits, underscore).
IsWordToken(tok) == tok \notin {"#", " ", "\n", ":", "*", "-", ".py", "foo.py", ".?"}

\* clean_name = re.sub(r'[^\w\s]', '.?', subcategory_name): every character
\* that is neither a word character nor whitespace becomes the pattern `.?`.
clean_name(subcategory_name) ==
    [k \in DOMAIN subcategory_name |->
        IF IsWordToken(subcategory_name[k]) \/ IsSpace(subcategory_name[k])
        THEN subcategory_name[k] ELSE ".?"]

RECURSIVE PatternEnd(_, _, _, _)
\* The pattern pat (literal tokens and `.?`) matched at position p of t as the
\* regular expression engine matches it: a `.?` takes one character if the
\* rest of the pattern then matches, none otherwise; without DOTALL it does not
\* take a newline.  The position after the match, 0 if there is none.
PatternEnd(t, p, pat, dotall) ==
    IF pat = <<>> THEN p
    ELSE IF Head(pat) = ".?"
    THEN LET one == IF p <= Len(t) /\ IsSingleChar(t[p]) /\ (dotall \/ t[p] # "\n")
                    THEN PatternEnd(t, p + 1, Tail(pat), dotall) ELSE 0
         IN  IF one # 0 THEN one ELSE PatternEnd(t, p, Tail(pat), dotall)
    ELSE IF p <= Len(t) /\ Lower(t[p]) = Lower(Head(pat))
    THEN PatternEnd(t, p + 1, Tail(pat), dotall)
    ELSE 0

\* `#+\s*{clean_name}` matched at position p: the position after it, 0 if none.
NameHeadingAt(t, p, pat, dotall) ==
    LET h == HashRunEnd(t, p)
        w == SpaceRunEnd(t, h)
    IN  IF p <= Len(t) /\ h > p THEN PatternEnd(t, w, pat, dotall) ELSE 0

\* `\*\*{clean_name}\*\*` matched at position p.
BoldAt(t, p, pat) == PatternEnd(t, p, <<"*", "*">> \o pat \o <<"*", "*">>, TRUE)

\* `{clean_name}:` matched at position p.
LabelAt(t, p, pat) == PatternEnd(t, p, pat \o <<":">>, TRUE)

\* First position >= p of t that holds no word token.
WordRunEnd(t, p) == Min({q \in p..(Len(t) + 1) : q = Len(t) + 1 \/ ~IsWordToken(t[q])})

\* The lookahead `(?=\n#+\s|\Z)` at position e.
HeadingAhead(t, e) ==
    \/ e = Len(t) + 1
    \/ /\ e <= Len(t) /\ t[e] = "\n"
       /\ HashRunEnd(t, e + 1) > e + 1
       /\ HashRunEnd(t, e + 1) <= Len(t)
       /\ IsSpace(t[HashRunEnd(t, e + 1)])

\* The lookahead `(?=\n\*\*|\Z)` at position e.
BoldAhead(t, e) ==
    \/ e = Len(t) + 1
    \/ e + 2 <= Len(t) /\ t[e] = "\n" /\ t[e + 1] = "*" /\ t[e + 2] = "*"

\* The lookahead `(?=\n\w+:|\Z)` at position e.
LabelAhead(t, e) ==
    \/ e = Len(t) + 1
    \/ /\ e <= Len(t) /\ t[e] = "\n"
       /\ WordRunEnd(t, e + 1) > e + 1
       /\ WordRunEnd(t, e + 1) <= Len(t)
       /\ t[WordRunEnd(t, e + 1)] = ":"

\* The body of the pattern of the given kind matched at position p.
BodyAt(kind, t, p, pat) ==
    IF kind = "heading" THEN NameHeadingAt(t, p, pat, TRUE)
    ELSE IF kind = "bold" THEN BoldAt(t, p, pat)
    ELSE LabelAt(t, p, pat)

\* The lookahead of the pattern of the given kind at position e.
AheadOf(kind, t, e) ==
    IF kind = "heading" THEN HeadingAhead(t, e)
    ELSE IF kind = "bold" THEN BoldAhead(t, e)
    ELSE LabelAhead(t, e)

\* Where the body of `(?:^|\n)<body>` starts for a match that starts at
\* position s: at s itself when s = 1 (`^`, tried first), after the newline at
\* s otherwise; 0 if there is no match at s.
BodyStart(kind, t, s, pat) ==
    IF s = 1 /\ BodyAt(kind, t, 1, pat) # 0 THEN 1
    ELSE IF s <= Len(t) /\ t[s] = "\n" /\ BodyAt(kind, t, s + 1, pat) # 0 THEN s + 1
    ELSE 0

\* re.search(rf"(?:^|\n)<body>.*?(?=<ahead>)", content, re.IGNORECASE |
\* re.DOTALL) for the pattern of the given kind: the leftmost start, the lazy
\* `.*?` as short as the lookahead allows; the value is match.group(0).
AnchoredSearch(content, kind, pat) ==
    LET starts == {s \in 1..(Len(content) + 1) : BodyStart(kind, content, s, pat) # 0}
    IN  IF starts = {} THEN NotFound
        ELSE LET s == Min(starts)
                 q == BodyAt(kind, content, BodyStart(kind, content, s, pat), pat)
                 e == Min({x \in q..(Len(content) + 1) : AheadOf(kind, content, x)})
             IN  Found(SubSeq(content, s, e - 1))

\* re.sub(rf"^#+\s*{clean_name}.*?\n", "", section, 1, re.IGNORECASE): the
\* heading line is cut off the section, if the pattern matches (no DOTALL here).
HeadingRemoved(section, pat) ==
    LET q == NameHeadingAt(section, 1, pat, FALSE)
        newlines == {x \in q..Len(section) : section[x] = "\n"}
    IN  IF q = 0 \/ newlines = {} THEN section
        ELSE SubSeq(section, Min(newlines) + 1, Len(section))

\* The three searches of extract_subcategory_section, in the order tried.
SubcategoryHeadingSearch(content, pat) == AnchoredSearch(content, "heading", pat)

SubcategoryBoldSearch(content, pat) == AnchoredSearch(content, "bold", pat)

SubcategoryLabelSearch(content, pat) == AnchoredSearch(content, "label", pat)

\* A faulty variant of extract_subcategory_section: the colon label is tried
\* before the heading and the bold text.
extract_subcategory_section_label_first(content, subcategory_name) ==
    LET pat == clean_name(subcategory_name)
        m1 == SubcategoryHeadingSearch(content, pat)
        m2 == SubcategoryBoldSearch(content, pat)
        m3 == SubcategoryLabelSearch(content, pat)
    IN  IF m3.found THEN Found(Strip(m3.text))
        ELSE IF m1.found THEN Found(Strip(HeadingRemoved(Strip(m1.text), pat)))
        ELSE IF m2.found THEN Found(Strip(m2.text))
        ELSE NotFound

\* extract_subcategory_section(content, subcategory_name): the section, or
\* None (NotFound).
extract_subcategory_section(content, subcategory_name) ==
    LET pat == clean_name(subcategory_name)
        m1 == SubcategoryHeadingSearch(content, pat)
        m2 == SubcategoryBoldSearch(content, pat)
        m3 == SubcategoryLabelSearch(content, pat)
    IN  IF m1.found THEN Found(Strip(HeadingRemoved(Strip(m1.text), pat)))
        ELSE IF m2.found THEN Found(Strip(m2.text))
        ELSE IF m3.found THEN Found(Strip(m3.text))
        ELSE NotFound

\* str.find(lit) on a text: the 0-based index of the first occurrence, or -1.
Find(t, lit) ==
    LET occ == {p \in 1..(Len(t) + 1) : EqualsAt(t, p, lit)}
    IN  IF occ = {} THEN -1 ELSE Min(occ) - 1

\* The slice t[a:b] of Python for 0 <= a and 0 <= b.
Slice(t, a, b) ==
    LET hi == IF b > Len(t) THEN Len(t) ELSE b
    IN  IF a >= hi THEN <<>> ELSE SubSeq(t, a + 1, hi)

\* ----------------------------------------------------- prompt repository
\* The language of the scanned files is python throughout.

\* repository["categories"]["python"]: category -> list of subcategory entries,
\* as load_prompt_repository returns it from a repository file.
Repository ==
    [security    |-> << [id |-> "sec-1", name |-> <<"Injection">>],
                        [id |-> "sec-2", name |-> <<"Secrets">>],
                        [id |-> "sec-3", name |-> <<"Crypto">>],
                        [id |-> "sec-4", name |-> <<"Auth">>] >>,
     performance |-> << [id |-> "perf-1", name |-> <<"Loops">>] >>]

\* list(repository["categories"]["python"].keys()), in the file's order.
RepositoryCategories == <<"security", "performance">>

\* list(repository["prompt_generation"]["scanner_template"].keys())
ScannerTemplateKeys == <<"security", "performance">>

\* `category in repository["categories"]["python"]`
HasCategory(category) == \E k \in DOMAIN RepositoryCategories : RepositoryCategories[k] = category

\* str.upper() of a category name.
Upper(category) ==
    IF category = "security" THEN "SECURITY"
    ELSE IF category = "performance" THEN "PERFORMANCE"
    ELSE category

\* The words that occur as sort keys, in the order of Python's string comparison.
SortedWords == <<"Auth", "Crypto", "Injection", "Loops", "Secrets", "performance", "security">>

WordRank(w) == CHOOSE k \in DOMAIN SortedWords : SortedWords[k] = w

\* The key of language_prompts.sort: (category, subcategory), compared as tuples.
PromptLess(a, b) ==
    \/ WordRank(a.category) < WordRank(b.category)
    \/ /\ a.category = b.category
       /\ WordRank(a.subcategory[1]) < WordRank(b.subcategory[1])

RECURSIVE InsertSorted(_, _)
\* x inserted after the elements that are not greater than it (a stable sort).
InsertSorted(sorted, x) ==
    IF sorted = <<>> THEN <<x>>
    ELSE IF PromptLess(x, Head(sorted)) THEN <<x>> \o sorted
    ELSE <<Head(sorted)>> \o InsertSorted(Tail(sorted), x)

RECURSIVE SortPrompts(_)
\* language_prompts.sort(key=lambda x: (x["category"], x["subcategory"]))
SortPrompts(ps) ==
    IF ps = <<>> THEN <<>>
    ELSE InsertSorted(SortPrompts(SubSeq(ps, 1, Len(ps) - 1)), ps[Len(ps)])

InList(x, list) == \E k \in DOMAIN list : list[k] = x

\* The prompts get_prompts_for_language adds for one category.
CategoryPrompts(category, subs) ==
    LET available == Repository[category]
        Wanted(sc) == subs = <<>> \/ InList(sc.id, subs)
        filtered == SelectSeq(available, Wanted)
    IN  [k \in DOMAIN filtered |->
            [category |-> category, subcategory |-> filtered[k].name,
             subcategory_id |-> filtered[k].id]]

RECURSIVE GatherPrompts(_, _)
GatherPrompts(cats, subs) ==
    IF cats = <<>> THEN <<>>
    ELSE (IF HasCategory(Head(cats)) THEN CategoryPrompts(Head(cats), subs) ELSE <<>>)
         \o GatherPrompts(Tail(cats), subs)

\* get_prompts_for_language(repository, "python", categories, subcategories)
get_prompts_for_language(cats, subs) ==
    GatherPrompts(IF cats = <<>> THEN RepositoryCategories ELSE cats, subs)

\* range(0, stop, step) raises ValueError: "range() arg 3 must not be zero".
RangeRaises(step) == step = 0

\* A faulty variant of RangeStarts: the start of a short trailing slice is left out.
RangeStartsFullOnly(stop, step) ==
    IF step > 0 THEN [k \in 1..(stop \div step) |-> (k - 1) * step] ELSE <<>>

\* list(range(0, stop, step)) for stop >= 0 and step # 0: 0, step, 2*step, ...
\* below stop; nothing for a negative step.
RangeStarts(stop, step) ==
    IF step > 0 THEN [k \in 1..((stop + step - 1) \div step) |-> (k - 1) * step] ELSE <<>>

\* [items[i:i + max_batch_size] for i in range(0, len(items), max_batch_size)]
split_into_batches(items_, n) ==
    LET starts == RangeStarts(Len(items_), n)
    IN  [k \in DOMAIN starts |-> Slice(items_, starts[k], starts[k] + n)]

\* ------------------------------------------------- combine_file_contents
\* os.path.basename(file_path), one word.
Basename(path) == <<"f", DigitTokens[path + 1], ".py">>

\* The content of a file, one word.
FileContent(path) == <<"code", DigitTokens[path + 1]>>

\* A faulty variant of MarkerLine: the marker line carries the 0-based index.
MarkerLineZeroBased(pos, path) ==
    <<"\n", "\n", "#", "#", "#", " ">> \o FileMarker(pos - 1) \o <<":", " ">>
        \o Basename(path) \o <<" ", "#", "#", "#", "\n", "\n">>

\* f"\n\n### FILE_{idx+1}: {basename} ###\n\n" for the file at position pos (1-based).
MarkerLine(pos, path) ==
    <<"\n", "\n", "#", "#", "#", " ">> \o FileMarker(pos) \o <<":", " ">>
        \o Basename(path) \o <<" ", "#", "#", "#", "\n", "\n">>

\* A faulty variant of HasContent: a blank file is taken like any other.
HasContentOrBlank(fsys, path) == fsys[path].readable

\* A file combine_file_contents takes: it can be read and is not blank.
HasContent(fsys, path) == fsys[path].readable /\ fsys[path].size > 0

RECURSIVE CombineFrom(_, _, _)
\* The loop of combine_file_contents from position pos on.
CombineFrom(fb, fsys, pos) ==
    IF pos > Len(fb) THEN [combined_content |-> <<>>, file_info |-> <<>>]
    ELSE LET rest == CombineFrom(fb, fsys, pos + 1)
             line == MarkerLine(pos, fb[pos])
         IN  IF ~HasContent(fsys, fb[pos]) THEN rest
             ELSE [combined_content |->
                       (IF pos > 1 THEN line ELSE LStrip(line))
                           \o FileContent(fb[pos]) \o rest.combined_content,
                   file_info |->
                       <<[file_path |-> fb[pos], file_marker |-> FileMarker(pos)]>>
                           \o rest.file_info]

\* combine_file_contents(files_to_batch, language)
combine_file_contents(fb, fsys) == CombineFrom(fb, fsys, 1)

\* ------------------------------------------------- parse_batch_response
\* f"## ANALYSIS {i}:" (alt_section_header; i is 1-based here)
AltSectionHeader(i) == <<"#", "#", " ", "ANALYSIS", " ">> \o Decimal(i) \o <<":">>

\* f"## ANALYSIS {i}: {category.upper()}: {subcategory}" (section_header)
SectionHeader(i, prompt) ==
    AltSectionHeader(i) \o <<" ", Upper(prompt.category), ":", " ">> \o prompt.subcategory

\* response_text.find(section_header), then .find(alt_section_header) if -1.
HeaderPosition(response_text, i, prompt) ==
    IF Find(response_text, SectionHeader(i, prompt)) # -1
    THEN Find(response_text, SectionHeader(i, prompt))
    ELSE Find(response_text, AltSectionHeader(i))

\* section_end of the i-th prompt: where the next prompt's header starts, the
\* end of the text when there is no next prompt or its header is missing.
SectionEnd(response_text, i, prompts) ==
    IF i + 1 <= Len(prompts)
    THEN LET nxt == HeaderPosition(response_text, i + 1, prompts[i + 1])
         IN  IF nxt = -1 THEN Len(response_text) ELSE nxt
    ELSE Len(response_text)

Analysis(prompt, content) ==
    [category |-> prompt.category, subcategory |-> prompt.subcategory,
     subcategory_id |-> prompt.subcategory_id, content |-> content]

RECURSIVE ParsedSections(_, _, _)
\* The loop `for i, prompt in enumerate(prompts)` from the i-th prompt on.
ParsedSections(response_text, prompts, i) ==
    IF i > Len(prompts) THEN <<>>
    ELSE LET section_start == HeaderPosition(response_text, i, prompts[i])
             section_end == SectionEnd(response_text, i, prompts)
             rest == ParsedSections(response_text, prompts, i + 1)
         IN  IF section_start = -1 THEN rest
             ELSE <<Analysis(prompts[i],
                             Strip(Slice(response_text, section_start, section_end)))>>
                  \o rest

\* `if not analyses:` every prompt gets the entire response.
WholeResponseForEach(response_text, prompts) ==
    [k \in DOMAIN prompts |-> Analysis(prompts[k], response_text)]

\* parse_batch_response(response_text, prompts)
parse_batch_response(response_text, prompts) ==
    IF response_text = <<>> THEN <<>>
    ELSE LET analyses == ParsedSections(response_text, prompts, 1)
         IN  IF analyses = <<>> THEN WholeResponseForEach(response_text, prompts)
             ELSE analyses

\* ------------------------------------------------------ inference gateway
\* The exceptions client.text_generation raises: analyze_with_cerebras catches
\* them (`except Exception`) and returns None.
GatewayFailures == {"timeout", "auth", "rate_limit", "malformed"}

\* analyze_with_cerebras returned None.
NoResponse == [ok |-> FALSE, text |-> <<>>]

\* analyze_with_cerebras returned a MockResponse holding the text.
MockResponse(text) == [ok |-> TRUE, text |-> text]

\* A model answer with no heading and no marker at all.
PlainResponse == <<"no", " ", "issues">>

\* A model answer whose only heading is that of FILE_10.
File10Response ==
    <<"#", "#", " ">> \o FileMarker(10) \o <<":", " ", "other", "\n", "finding">>

\* A model answer that has a heading for FILE_2 only and names FILE_1 in its body.
MentionResponse ==
    <<"#", "#", " ">> \o FileMarker(2) \o <<":", " ", "other", "\n", "see", " ">>
        \o FileMarker(1)

RECURSIVE FileSections(_, _)
\* A model answer as the prompt asks for it: "## FILE_n: name" and a finding
\* for every file of file_info from position k on.
FileSections(info, k) ==
    IF k > Len(info) THEN <<>>
    ELSE (IF k > 1 THEN <<"\n">> ELSE <<>>)
         \o <<"#", "#", " ">> \o info[k].file_marker \o <<":", " ">>
         \o Basename(info[k].file_path) \o <<"\n", "finding">>
         \o SubSeq(info[k].file_marker, 2, Len(info[k].file_marker))
         \o FileSections(info, k + 1)

RECURSIVE AnalysisSections(_, _, _)
\* A model answer as generate_prompt asks for it: the "## ANALYSIS i: ..."
\* header and a finding for the prompts k..last of the batch.
AnalysisSections(prompts, k, last) ==
    IF k > last \/ k > Len(prompts) THEN <<>>
    ELSE SectionHeader(k, prompts[k]) \o <<"\n", "finding">> \o Decimal(k) \o <<"\n">>
         \o AnalysisSections(prompts, k + 1, last)

\* The texts the gateway may answer a scan_file_batch prompt with.
BatchResponses(info) ==
    {FileSections(info, 1), PlainResponse, File10Response, MentionResponse, <<>>}

\* The texts the gateway may answer a scan_file prompt with: every section, the
\* first section only, no section, nothing.
FileResponses(prompts) ==
    {AnalysisSections(prompts, 1, Len(prompts)), AnalysisSections(prompts, 1, 1),
     PlainResponse, <<>>}

\* ------------------------------------------------------- scan_file_batch
\* selected_subcategories of a category: the requested ids that the category
\* has, in the order requested; all of the category's ids without a request.
SelectedSubcategories(category, subs) ==
    LET available == [k \in DOMAIN Repository[category] |-> Repository[category][k].id]
        IsAvailable(sc) == InList(sc, available)
    IN  SelectSeq(IF subs # <<>> THEN subs ELSE available, IsAvailable)

\* The category loop skips a category the language does not have, or one with
\* no selected subcategory.
SkipsCategory(category, subs) ==
    IF HasCategory(category) THEN SelectedSubcategories(category, subs) = <<>> ELSE TRUE

\* subcategory_details of a subcategory batch: id and name of every id found
\* in the repository.
SubcategoryDetails(category, subcategory_batch) ==
    LET Entry(id) == CHOOSE k \in DOMAIN Repository[category] :
                         Repository[category][k].id = id
        Known(id) == \E k \in DOMAIN Repository[category] : Repository[category][k].id = id
        known == SelectSeq(subcategory_batch, Known)
    IN  [k \in DOMAIN known |->
            [id |-> known[k], name |-> Repository[category][Entry(known[k])].name]]

\* The (category, subcategory id) units a scan_file_batch prompt asks about.
BatchUnits(category, details) ==
    [k \in DOMAIN details |-> [category |-> category, subcategory_id |-> details[k].id]]

\* The units a scan_file prompt asks about.
PromptUnits(prompts) ==
    [k \in DOMAIN prompts |->
        [category |-> prompts[k].category, subcategory_id |-> prompts[k].subcategory_id]]

\* A faulty variant of AppendAnalysis: the new record replaces the list.
AppendAnalysisOverwrites(analyses, analysis) == <<analysis>>

\* file_result["analyses"].append(analysis)
AppendAnalysis(analyses, analysis) == Append(analyses, analysis)

RECURSIVE AddAnalyses(_, _, _, _)
\* `for subcategory in subcategory_details`: one record per subcategory, each
\* holding the file's section.
AddAnalyses(analyses, category, details, file_section) ==
    IF details = <<>> THEN analyses
    ELSE AddAnalyses(
             AppendAnalysis(analyses,
                 [category |-> category, subcategory |-> Head(details).name,
                  subcategory_id |-> Head(details).id, content |-> file_section]),
             category, Tail(details), file_section)

\* next((r for r in batch_results if r["file_path"] == file_path), None): the
\* index of the entry, 0 for None.
FileResultIndex(results, path) ==
    IF \E k \in DOMAIN results : results[k].file_path = path
    THEN Min({k \in DOMAIN results : results[k].file_path = path})
    ELSE 0

\* The body of `for file_data in file_info` for one file.
AggregateFile(results, file_data, content, category, details) ==
    LET file_section == extract_file_section(content, file_data.file_marker)
    IN  IF ~file_section.found \/ file_section.text = <<>> THEN results
        ELSE LET with_entry ==
                     IF FileResultIndex(results, file_data.file_path) = 0
                     THEN Append(results, [file_path |-> file_data.file_path,
                                           analyses |-> <<>>])
                     ELSE results
                 k == FileResultIndex(with_entry, file_data.file_path)
             IN  [with_entry EXCEPT ![k].analyses =
                     AddAnalyses(@, category, details, file_section.text)]

RECURSIVE AggregateFiles(_, _, _, _, _)
\* `for file_data in file_info`: the results after one response is processed.
AggregateFiles(results, info, content, category, details) ==
    IF info = <<>> THEN results
    ELSE AggregateFiles(AggregateFile(results, Head(info), content, category, details),
                        Tail(info), content, category, details)

\* scan_file_batch returns [] at once: an empty batch, or no file with content.
SfbNothingToScan ==
    /\ entry = "batch" /\ spc = "start"
    /\ \/ file_batch = <<>>
       \/ combine_file_contents(file_batch, fs).file_info = <<>>
       \/ combine_file_contents(file_batch, fs).combined_content = <<>>
    /\ spc' = "done"
    /\ UNCHANGED <<otherVars, fs, gobVars, entry, file_batch, categories, subcategories, file_info,
                   combined_content, ci, subcategory_batches, bi, subcategory_details,
                   response, gateway_error, batch_results, result, calls>>

\* scan_file_batch combines the files and defaults the categories.
SfbStart ==
    /\ entry = "batch" /\ spc = "start"
    /\ file_batch # <<>>
    /\ combine_file_contents(file_batch, fs).file_info # <<>>
    /\ combine_file_contents(file_batch, fs).combined_content # <<>>
    /\ file_info' = combine_file_contents(file_batch, fs).file_info
    /\ combined_content' = combine_file_contents(file_batch, fs).combined_content
    /\ categories' = IF categories = <<>> THEN ScannerTemplateKeys ELSE categories
    /\ batch_results' = <<>>
    /\ ci' = 0
    /\ spc' = "category"
    /\ UNCHANGED <<otherVars, fs, gobVars, entry, file_batch, subcategories, subcategory_batches, bi,
                   subcategory_details, response, gateway_error, result, calls>>

\* `for category in categories`: a category that is skipped (`continue`).
SfbSkipCategory ==
    /\ entry = "batch" /\ spc = "category" /\ ci < Len(categories)
    /\ SkipsCategory(categories[ci + 1], subcategories)
    /\ ci' = ci + 1
    /\ UNCHANGED <<otherVars, fs, gobVars, entry, file_batch, categories, subcategories, spc, file_info,
                   combined_content, subcategory_batches, bi, subcategory_details,
                   response, gateway_error, batch_results, result, calls>>

\* `for category in categories`: the subcategories of the category are split
\* into batches of three.
SfbEnterCategory ==
    /\ entry = "batch" /\ spc = "category" /\ ci < Len(categories)
    /\ ~SkipsCategory(categories[ci + 1], subcategories)
    /\ subcategory_batches' =
           split_into_batches(SelectedSubcategories(categories[ci + 1], subcategories), 3)
    /\ bi' = 0
    /\ spc' = "compose"
    /\ UNCHANGED <<otherVars, fs, gobVars, entry, file_batch, categories, subcategories, file_info,
                   combined_content, ci, subcategory_details, response, gateway_error,
                   batch_results, result, calls>>

\* `for batch_idx, subcategory_batch in enumerate(subcategory_batches)`: the
\* prompt of the batch is composed (a batch without details is skipped).
SfbCompose ==
    /\ entry = "batch" /\ spc = "compose" /\ bi < Len(subcategory_batches)
    /\ LET details == SubcategoryDetails(categories[ci + 1], subcategory_batches[bi + 1])
       IN  /\ subcategory_details' = details
           /\ IF details = <<>>
              THEN bi' = bi + 1 /\ spc' = "compose"
              ELSE bi' = bi /\ spc' = "call"
    /\ UNCHANGED <<otherVars, fs, gobVars, entry, file_batch, categories, subcategories, file_info,
                   combined_content, ci, subcategory_batches, response, gateway_error,
                   batch_results, result, calls>>

\* The subcategory batches of the category are done: on to the next category.
SfbNextCategory ==
    /\ entry = "batch" /\ spc = "compose" /\ bi = Len(subcategory_batches)
    /\ ci' = ci + 1
    /\ spc' = "category"
    /\ UNCHANGED <<otherVars, fs, gobVars, entry, file_batch, categories, subcategories, file_info,
                   combined_content, subcategory_batches, bi, subcategory_details,
                   response, gateway_error, batch_results, result, calls>>

\* The response is segmented per file and the records are added to batch_results.
SfbAggregate ==
    /\ entry = "batch" /\ spc = "aggregate"
    /\ batch_results' = AggregateFiles(batch_results, file_info, response.text,
                                       categories[ci + 1], subcategory_details)
    /\ bi' = bi + 1
    /\ spc' = "compose"
    /\ UNCHANGED <<otherVars, fs, gobVars, entry, file_batch, categories, subcategories, file_info,
                   combined_content, ci, subcategory_batches, subcategory_details,
                   response, gateway_error, result, calls>>

\* The category loop is over: scan_file_batch returns batch_results.
SfbReturn ==
    /\ entry = "batch" /\ spc = "category" /\ ci = Len(categories)
    /\ spc' = "done"
    /\ UNCHANGED <<otherVars, fs, gobVars, entry, file_batch, categories, subcategories, file_info,
                   combined_content, ci, subcategory_batches, bi, subcategory_details,
                   response, gateway_error, batch_results, result, calls>>

\* --------------------------------------------------------------- scan_file
NoResult == [none |-> TRUE, analyses |-> <<>>]

\* result["analyses"].extend(batch_analyses)
ExtendAnalyses(analyses, batch_analyses) == analyses \o batch_analyses

\* The prompt batches scan_file works through.
PromptBatches(cats, subs) ==
    split_into_batches(SortPrompts(get_prompts_for_language(cats, subs)), 3)

\* scan_file returns None before any call: the file cannot be read, is blank,
\* or no prompt is selected.
SfSkip ==
    /\ entry = "file" /\ spc = "start"
    /\ \/ ~HasContent(fs, file_batch[1])
       \/ get_prompts_for_language(categories, subcategories) = <<>>
    /\ result' = NoResult
    /\ spc' = "done"
    /\ UNCHANGED <<otherVars, fs, gobVars, entry, file_batch, categories, subcategories, file_info,
                   combined_content, ci, subcategory_batches, bi, subcategory_details,
                   response, gateway_error, batch_results, calls>>

\* scan_file reads the file, prepares result and the sorted prompt batches.
SfStart ==
    /\ entry = "file" /\ spc = "start"
    /\ HasContent(fs, file_batch[1])
    /\ get_prompts_for_language(categories, subcategories) # <<>>
    /\ result' = [none |-> FALSE, analyses |-> <<>>]
    /\ subcategory_batches' = PromptBatches(categories, subcategories)
    /\ bi' = 0
    /\ spc' = "compose"
    /\ UNCHANGED <<otherVars, fs, gobVars, entry, file_batch, categories, subcategories, file_info,
                   combined_content, ci, subcategory_details, response, gateway_error,
                   batch_results, calls>>

\* `for batch_idx, batch in enumerate(prompt_batches)`: generate_prompt.
SfCompose ==
    /\ entry = "file" /\ spc = "compose" /\ bi < Len(subcategory_batches)
    /\ spc' = "call"
    /\ UNCHANGED <<otherVars, fs, gobVars, entry, file_batch, categories, subcategories, file_info,
                   combined_content, ci, subcategory_batches, bi, subcategory_details,
                   response, gateway_error, batch_results, result, calls>>

\* The response is parsed and its records are added to result["analyses"].
SfParse ==
    /\ entry = "file" /\ spc = "aggregate"
    /\ LET batch_analyses == parse_batch_response(response.text, subcategory_batches[bi + 1])
       IN  result' = IF batch_analyses # <<>>
                     THEN [result EXCEPT !.analyses = ExtendAnalyses(@, batch_analyses)]
                     ELSE result
    /\ bi' = bi + 1
    /\ spc' = "compose"
    /\ UNCHANGED <<otherVars, fs, gobVars, entry, file_batch, categories, subcategories, file_info,
                   combined_content, ci, subcategory_batches, subcategory_details,
                   response, gateway_error, batch_results, calls>>

\* The batch loop is over: scan_file returns result.
SfReturn ==
    /\ entry = "file" /\ spc = "compose" /\ bi = Len(subcategory_batches)
    /\ spc' = "done"
    /\ UNCHANGED <<otherVars, fs, gobVars, entry, file_batch, categories, subcategories, file_info,
                   combined_content, ci, subcategory_batches, bi, subcategory_details,
                   response, gateway_error, batch_results, result, calls>>

\* ------------------------------------------------- analyze_with_cerebras
\* The units of the prompt that is about to be sent.
CurrentUnits ==
    IF entry = "batch" THEN BatchUnits(categories[ci + 1], subcategory_details)
    ELSE PromptUnits(subcategory_batches[bi + 1])

\* A faulty variant of AfterFailure: a failed call ends the scan.
AfterFailureReturns == "done"

\* Where the caller goes on after analyze_with_cerebras returned None: the
\* next batch (`continue` in scan_file_batch, the failed `if response` in
\* scan_file).
AfterFailure == "compose"

\* The call raises inside the try block: analyze_with_cerebras logs the error
\* and returns None, the caller goes on with the next batch.
CallFails ==
    /\ spc = "call"
    /\ \E kind \in GatewayFailures : gateway_error' = kind
    /\ response' = NoResponse
    /\ calls' = Append(calls, [units |-> CurrentUnits, ok |-> FALSE])
    /\ bi' = bi + 1
    /\ spc' = AfterFailure
    /\ UNCHANGED <<otherVars, fs, gobVars, entry, file_batch, categories, subcategories, file_info,
                   combined_content, ci, subcategory_batches, subcategory_details,
                   batch_results, result>>

\* initialize_client finds no API key and calls sys.exit(1): SystemExit is no
\* Exception, no `except Exception` of the call chain catches it, the process ends.
CallExits ==
    /\ spc = "call"
    /\ gateway_error' = "no_api_key"
    /\ response' = NoResponse
    /\ calls' = Append(calls, [units |-> CurrentUnits, ok |-> FALSE])
    /\ spc' = "exited"
    /\ UNCHANGED <<otherVars, fs, gobVars, entry, file_batch, categories, subcategories, file_info,
                   combined_content, ci, subcategory_batches, bi, subcategory_details,
                   batch_results, result>>

\* The gateway answers with a text.
CallResponds ==
    /\ spc = "call"
    /\ \E text \in (IF entry = "batch" THEN BatchResponses(file_info)
                    ELSE FileResponses(subcategory_batches[bi + 1])) :
           response' = MockResponse(text)
    /\ gateway_error' = "none"
    /\ calls' = Append(calls, [units |-> CurrentUnits, ok |-> TRUE])
    /\ spc' = "aggregate"
    /\ UNCHANGED <<otherVars, fs, gobVars, entry, file_batch, categories, subcategories, file_info,
                   combined_content, ci, subcategory_batches, bi, subcategory_details,
                   batch_results, result>>

\* ------------------------------------------------ format_results_markdown
\* str.capitalize() of a category or language name.
Capitalize(word) ==
    IF word = "security" THEN "Security"
    ELSE IF word = "performance" THEN "Performance"
    ELSE IF word = "python" THEN "Python"
    ELSE word

\* The file_path string of a path.
PathText(path) == <<"src", "/">> \o Basename(path)

\* The value of `if not results`.
NoResultsReport ==
    <<"#", " ", "Scan", " ", "Results", "\n", "\n", "No", " ", "results", " ", "found.">>

\* markdown = "# Code Scan Results\n\n"
ReportTitle == <<"#", " ", "Code", " ", "Scan", " ", "Results", "\n", "\n">>

\* f"## {basename}\n" + f"**File:** {file_path}  \n" + f"**Language:** {language}\n\n"
FileHeader(path) ==
    <<"#", "#", " ">> \o Basename(path) \o <<"\n">>
        \o <<"*", "*", "File", ":", "*", "*", " ">> \o PathText(path) \o <<" ", " ", "\n">>
        \o <<"*", "*", "Language", ":", "*", "*", " ", Capitalize("python"), "\n", "\n">>

\* f"### {category.capitalize()} Analysis\n\n"
CategoryHeader(category) ==
    <<"#", "#", "#", " ", Capitalize(category), " ", "Analysis", "\n", "\n">>

\* f"#### {subcategory}\n\n" + f"{text}\n\n" + "---\n\n"
SubcategoryBlock(subcategory, text) ==
    <<"#", "#", "#", "#", " ">> \o subcategory \o <<"\n", "\n">>
        \o text \o <<"\n", "\n">> \o <<"-", "-", "-", "\n", "\n">>

\* The truth value of a section returned by extract_subcategory_section.
IsTruthy(section) == section.found /\ section.text # <<>>

RECURSIVE SharedBlocks(_, _, _)
\* `for shared_analysis in [a for a in analyses if hash(a["content"]) ==
\* content_hash]`: the block of every analysis that shares the content and
\* whose own section can be extracted from it.
SharedBlocks(analyses, content, i) ==
    IF i > Len(analyses) THEN <<>>
    ELSE LET section_content ==
                 extract_subcategory_section(content, analyses[i].subcategory)
         IN  (IF analyses[i].content = content /\ IsTruthy(section_content)
              THEN SubcategoryBlock(analyses[i].subcategory, section_content.text)
              ELSE <<>>)
             \o SharedBlocks(analyses, content, i + 1)

\* `if not extracted_content`: the full content under the subcategory of the
\* analysis that brought it first.
FallbackBlock(analysis) == SubcategoryBlock(analysis.subcategory, analysis.content)

RECURSIVE RenderAnalyses(_, _, _)
\* `for analysis in analyses` from the i-th analysis on, with the contents
\* already in processed_contents.
RenderAnalyses(analyses, i, processed_contents) ==
    IF i > Len(analyses) THEN <<>>
    ELSE IF analyses[i].content \in processed_contents
    THEN RenderAnalyses(analyses, i + 1, processed_contents)
    ELSE LET content == analyses[i].content
             extracted_content == extract_subcategory_section(content, analyses[i].subcategory)
         IN  (IF ~IsTruthy(extracted_content) THEN FallbackBlock(analyses[i])
              ELSE SharedBlocks(analyses, content, 1))
             \o RenderAnalyses(analyses, i + 1, processed_contents \cup {content})

RECURSIVE CategoriesOf(_, _)
\* The keys of analyses_by_category in insertion order: the categories of the
\* analyses i.. that are not in seen.
CategoriesOf(analyses, seen) ==
    IF analyses = <<>> THEN <<>>
    ELSE IF Head(analyses).category \in seen THEN CategoriesOf(Tail(analyses), seen)
    ELSE <<Head(analyses).category>>
            \o CategoriesOf(Tail(analyses), seen \cup {Head(analyses).category})

\* analyses_by_category[category]
AnalysesOfCategory(analyses, category) ==
    LET InCategory(a) == a.category = category
    IN  SelectSeq(analyses, InCategory)

RECURSIVE RenderCategories(_, _)
\* `for category, analyses in analyses_by_category.items()`
RenderCategories(analyses, cats) ==
    IF cats = <<>> THEN <<>>
    ELSE CategoryHeader(Head(cats))
            \o RenderAnalyses(AnalysesOfCategory(analyses, Head(cats)), 1, {})
            \o RenderCategories(analyses, Tail(cats))

RECURSIVE RenderFiles(_)
\* `for file_result in results`
RenderFiles(results) ==
    IF results = <<>> THEN <<>>
    ELSE FileHeader(Head(results).file_path)
            \o RenderCategories(Head(results).analyses, CategoriesOf(Head(results).analyses, {}))
            \o RenderFiles(Tail(results))

\* format_results_markdown(results)
format_results_markdown(results) ==
    IF results = <<>> THEN NoResultsReport ELSE ReportTitle \o RenderFiles(results)

\* ------------------------------------------------------------- the scans
\* Longest file batch handed to scan_file_batch.
MaxBatchFiles == 2

\* Values of the `categories` parameter: none, one the language lacks followed
\* by one it has, one with a single subcategory.
CategoryChoices == {<<>>, <<"style", "security">>, <<"performance">>}

\* Values of the `subcategories` parameter: none, or ids in an order of their
\* own with one that no category has.
SubcategoryChoices == {<<>>, <<"sec-4", "sec-1", "nope">>}

\* The file lists handed to the scan that works on k paths: the paths 1..k
\* and, for scan_file_batch, the first path listed twice.
FileBatches(e, k) ==
    {[j \in 1..k |-> j]} \cup (IF e = "batch" /\ k = 1 THEN {<<1, 1>>} ELSE {})

ScanInit ==
    /\ BatcherIdle
    /\ OthersIdle
    /\ entry \in {"batch", "file"}
    /\ \E k \in (IF entry = "file" THEN {1} ELSE 0..MaxBatchFiles) :
          /\ file_batch \in FileBatches(entry, k)
          /\ fs \in FileSystems(k, {400})
    /\ categories \in CategoryChoices
    /\ subcategories \in SubcategoryChoices
    /\ spc = "start" /\ file_info = <<>> /\ combined_content = <<>> /\ ci = 0
    /\ subcategory_batches = <<>> /\ bi = 0 /\ subcategory_details = <<>>
    /\ response = NoResponse /\ gateway_error = "none" /\ batch_results = <<>>
    /\ result = NoResult /\ calls = <<>>

ScanNext ==
    \/ SfbNothingToScan \/ SfbStart \/ SfbSkipCategory \/ SfbEnterCategory
    \/ SfbCompose \/ SfbNextCategory \/ SfbAggregate \/ SfbReturn
    \/ SfSkip \/ SfStart \/ SfCompose \/ SfParse \/ SfReturn
    \/ CallFails \/ CallExits \/ CallResponds

ScanSpec == ScanInit /\ [][ScanNext]_vars

\* The positions of a scan.
ScanPositions == {"start", "category", "compose", "call", "aggregate", "done", "exited"}

\* The scan has a statement left to execute.
ScanRuns == spc \in {"start", "category", "compose", "call", "aggregate"}

\* The running scan leaves its statement: the position changes, or the
\* category loop goes to its next round.
ScanMoves == ScanRuns /\ spc' \in ScanPositions /\ ci' \in {ci, ci + 1}

\* The scans under the scheduling of a running process: the interpreter does
\* not stay at a statement forever, and a call that was made returns, fails or
\* ends the process.
ScanFairSpec == ScanSpec /\ WF_<<spc, ci>>(ScanMoves)

\* ------------------------------------------------ split_into_batches calls
\* Longest list handed to split_into_batches.
MaxItems == 7

\* Largest max_batch_size handed to split_into_batches.
MaxBatchSize == 4

\* Values of the max_batch_size parameter: negative ones and 0 among them.
BatchSizes == (-2)..MaxBatchSize

\* The lists of at most k items; an item is one of two subcategory ids.
ItemLists(k) == UNION {[1..len -> {"sec-1", "sec-2"}] : len \in 0..k}

\* split_into_batches(items, max_batch_size) returns the list of slices.
SplitReturns ==
    /\ split_pc = "call"
    /\ ~RangeRaises(max_batch_size)
    /\ split_result' = split_into_batches(items, max_batch_size)
    /\ split_pc' = "returned"
    /\ UNCHANGED <<exceptSplit, items, max_batch_size>>

\* range() raises ValueError for a step of 0; nothing in the function catches it.
SplitRaises ==
    /\ split_pc = "call"
    /\ RangeRaises(max_batch_size)
    /\ split_pc' = "raised"
    /\ UNCHANGED <<exceptSplit, items, max_batch_size, split_result>>

SplitInit ==
    /\ ChunkIdle
    /\ ParseIdle
    /\ UiIdle
    /\ AnalyzerIdle
    /\ TokensIdle
    /\ ComposerIdle
    /\ fs \in FileSystems(0, {})
    /\ BatcherIdle
    /\ ScanIdle
    /\ SegIdle
    /\ ReportIdle
    /\ PromptsIdle
    /\ MainIdle
    /\ items \in ItemLists(MaxItems)
    /\ max_batch_size \in BatchSizes
    /\ split_pc = "call"
    /\ split_result = <<>>

SplitNext == SplitReturns \/ SplitRaises

SplitSpec == SplitInit /\ [][SplitNext]_vars

\* ------------------------------------------------------- segmenter calls
\* Most pieces a response handed to extract_subcategory_section is made of.
MaxPieces == 2

\* The heading line `## FILE_2: foo.py`.
File2Heading == <<"#", "#", " ", "FILE_", "2", ":", " ", "foo.py">>

\* Body texts of a file section: none, one line, lines with blank lines around
\* them, lines with a sub-heading `### Files` between them.
SectionBodies ==
    {<<>>,
     <<"\n", "finding">>,
     <<"\n", "\n", "finding", " ", "see", " ", "FILE_", "1", "\n">>,
     <<"\n", "finding", "\n", "#", "#", "#", " ", "Files", "\n", "more">>}

\* Texts before the heading of FILE_2: nothing, an introduction, the section of
\* FILE_1, the section of FILE_20.
TextsBefore ==
    {<<>>,
     <<"intro", " ", "FILE_", "2", "\n">>,
     <<"#", "#", " ", "FILE_", "1", ":", " ", "other", "\n", "finding", "1", "\n">>,
     <<"#", "#", " ", "FILE_", "2", "0", ":", " ", "other", "\n", "finding", "\n">>}

\* Texts from the next FILE heading on: nothing, the section of FILE_3 (with
\* one or three heading symbols).
TextsAfter ==
    {<<>>,
     <<"\n", "#", "#", " ", "FILE_", "3", ":", " ", "other", "\n", "finding", "3">>,
     <<"\n", "#", "#", "#", "FILE_", "3", "\n", "see", " ", "FILE_", "2">>}

\* The responses handed to extract_file_section: a section of FILE_2 between a
\* text before and a text after, or a response without one.
FileSectionContents ==
    {b \o File2Heading \o s \o a : b \in TextsBefore, s \in SectionBodies, a \in TextsAfter}
        \cup {PlainResponse, <<>>}

\* The subcategory names handed to extract_subcategory_section.
SubcategoryNames == {<<"Auth">>, <<"SQL", "-", "Injection">>}

\* The ways a name is written in a response: the names themselves, in lower
\* case, another name, and the punctuated name with another character or with
\* no character at the place of its punctuation.
WrittenNames ==
    {<<"Auth">>, <<"auth">>, <<"Crypto">>, <<"SQL", "-", "Injection">>,
     <<"SQL", " ", "Injection">>, <<"SQL", "Injection">>}

PieceKinds == {"heading", "bold", "label"}

\* The text of the k-th piece of a response: a heading, a bold pseudo-heading
\* or a colon label carrying the written name, and a finding numbered k.
Piece(kind, written, k) ==
    IF kind = "heading" THEN <<"#", "#", " ">> \o written \o <<"\n", "finding">> \o Decimal(k)
    ELSE IF kind = "bold"
    THEN <<"*", "*">> \o written \o <<"*", "*", "\n", "finding">> \o Decimal(k)
    ELSE written \o <<":", " ", "finding">> \o Decimal(k)

\* A piece description: the kind and the written name.
PieceSpecs == [kind : PieceKinds, written : WrittenNames]

RECURSIVE PiecesText(_, _)
\* The pieces k.. of a response, one per line block.
PiecesText(ps, k) ==
    IF k > Len(ps) THEN <<>>
    ELSE (IF k > 1 THEN <<"\n">> ELSE <<>>)
         \o Piece(ps[k].kind, ps[k].written, k) \o PiecesText(ps, k + 1)

\* The responses handed to extract_subcategory_section.
SubcategoryContents ==
    {PiecesText(ps, 1) : ps \in UNION {[1..n -> PieceSpecs] : n \in 0..MaxPieces}}
        \cup {PlainResponse}

\* extract_file_section(content, file_marker) returns.
ExtractFileSection ==
    /\ seg_pc = "call" /\ seg_fn = "file"
    /\ seg_section' = extract_file_section(seg_content, seg_name)
    /\ seg_pc' = "returned"
    /\ UNCHANGED <<exceptSeg, seg_fn, seg_content, seg_name>>

\* extract_subcategory_section(content, subcategory_name) returns.
ExtractSubcategorySection ==
    /\ seg_pc = "call" /\ seg_fn = "subcategory"
    /\ seg_section' = extract_subcategory_section(seg_content, seg_name)
    /\ seg_pc' = "returned"
    /\ UNCHANGED <<exceptSeg, seg_fn, seg_content, seg_name>>

SegInit ==
    /\ ChunkIdle
    /\ ParseIdle
    /\ UiIdle
    /\ AnalyzerIdle
    /\ TokensIdle
    /\ ComposerIdle
    /\ fs \in FileSystems(0, {})
    /\ BatcherIdle
    /\ ScanIdle
    /\ SplitIdle
    /\ ReportIdle
    /\ PromptsIdle
    /\ MainIdle
    /\ seg_fn \in {"file", "subcategory"}
    /\ IF seg_fn = "file"
       THEN seg_content \in FileSectionContents /\ seg_name \in {FileMarker(1), FileMarker(2)}
       ELSE seg_content \in SubcategoryContents /\ seg_name \in SubcategoryNames
    /\ seg_pc = "call"
    /\ seg_section = NotFound

SegNext == ExtractFileSection \/ ExtractSubcategorySection

SegSpec == SegInit /\ [][SegNext]_vars

\* -------------------------------------------- format_results_markdown calls
\* Most analysis records in the results handed to format_results_markdown.
MaxAnalyses == 3

\* The prompts the records of a report are tagged with: two subcategories of
\* security, one of performance.
ReportPrompts ==
    LET IsReportPrompt(p) == p.subcategory_id \in {"sec-1", "sec-4", "perf-1"}
    IN  Range(SelectSeq(get_prompts_for_language(<<>>, <<>>), IsReportPrompt))

\* A response with a section for Auth and one for Injection.
SectionedResponse ==
    <<"#", "#", " ", "Auth", "\n", "finding", "1", "\n",
      "#", "#", " ", "Injection", "\n", "finding", "2">>

\* A response with a section for Auth only.
AuthOnlyResponse == <<"#", "#", " ", "Auth", "\n", "finding", "3">>

\* The contents of the records: a response without any section (what a
\* fallback stores), one with two sections, one with one section.
ReportContents == {PlainResponse, SectionedResponse, AuthOnlyResponse}

ReportRecords == {Analysis(p, c) : p \in ReportPrompts, c \in ReportContents}

\* The results of a scan with at most k records: no file, one file with all
\* the records, or two files that share them.
ReportResults(k) ==
    LET lists == UNION {[1..n -> ReportRecords] : n \in 0..k}
    IN  {<<>>}
        \cup {<<[file_path |-> 1, analyses |-> as]>> : as \in lists}
        \cup UNION {{<<[file_path |-> 1, analyses |-> SubSeq(as, 1, j)],
                       [file_path |-> 2, analyses |-> SubSeq(as, j + 1, Len(as))]>> :
                         j \in 0..Len(as)} : as \in lists}

\* format_results_markdown(results) returns the report.
FormatResultsMarkdown ==
    /\ report_pc = "call"
    /\ markdown' = format_results_markdown(report_results)
    /\ report_pc' = "returned"
    /\ UNCHANGED <<exceptReport, report_results>>

ReportInit ==
    /\ ChunkIdle
    /\ ParseIdle
    /\ UiIdle
    /\ AnalyzerIdle
    /\ TokensIdle
    /\ ComposerIdle
    /\ fs \in FileSystems(0, {})
    /\ BatcherIdle
    /\ ScanIdle
    /\ SplitIdle
    /\ SegIdle
    /\ PromptsIdle
    /\ MainIdle
    /\ report_results \in ReportResults(MaxAnalyses)
    /\ report_pc = "call"
    /\ markdown = <<>>

ReportNext == FormatResultsMarkdown

ReportSpec == ReportInit /\ [][ReportNext]_vars

\* ---------------------------------------- get_prompts_for_language calls
\* Longest categories filter.
MaxFilter == 3

\* The names a categories filter is made of; python has no category "style".
FilterNames == {"security", "performance", "style"}

\* The values of the parameter `categories`; <<>> stands for None / [].
CategoryFilters(k) == UNION {[1..n -> FilterNames] : n \in 0..k}

\* The values of the parameter `subcategories`; <<>> stands for None / [].
SubcategoryFilters == {<<>>, <<"sec-4", "sec-1", "nope">>, <<"perf-1">>}

\* get_prompts_for_language with no repository (or none for the language):
\* a warning, return [].
GetPromptsNoRepository ==
    /\ prompts_pc = "call"
    /\ prompt_repository = "None"
    /\ language_prompts' = <<>>
    /\ prompts_pc' = "returned"
    /\ UNCHANGED <<exceptPrompts, prompt_categories, prompt_subcategories, prompt_repository>>

\* get_prompts_for_language(repository, "python", categories, subcategories)
GetPrompts ==
    /\ prompts_pc = "call"
    /\ prompt_repository = "loaded"
    /\ language_prompts' = get_prompts_for_language(prompt_categories, prompt_subcategories)
    /\ prompts_pc' = "returned"
    /\ UNCHANGED <<exceptPrompts, prompt_categories, prompt_subcategories, prompt_repository>>

PromptsInit ==
    /\ ChunkIdle
    /\ ParseIdle
    /\ UiIdle
    /\ AnalyzerIdle
    /\ TokensIdle
    /\ ComposerIdle
    /\ fs \in FileSystems(0, {})
    /\ BatcherIdle
    /\ ScanIdle
    /\ SplitIdle
    /\ SegIdle
    /\ ReportIdle
    /\ MainIdle
    /\ prompt_categories \in CategoryFilters(MaxFilter)
    /\ prompt_subcategories \in SubcategoryFilters
    /\ prompt_repository \in {"loaded", "None"}
    /\ prompts_pc = "call"
    /\ language_prompts = <<>>

PromptsNext == GetPromptsNoRepository \/ GetPrompts

PromptsSpec == PromptsInit /\ [][PromptsNext]_vars

\* ---------------------------------------------------------- composer calls
\* Longest list of subcategory ids handed to the composer.
MaxIds == 2

\* The ids a subcategory batch is made of; no category has the id "nope".
ComposerIds == {"sec-1", "sec-4", "perf-1", "nope"}

\* The values of `subcategory_ids`.
IdLists(k) == UNION {[1..n -> ComposerIds] : n \in 0..k}

\* No prompt: None.
NoPrompt == [none |-> TRUE, text |-> <<>>]

\* f"**{name}**:\n{prompt_template}" for every entry of subcategory_details,
\* joined; the id stands for the template of the subcategory.
SubcategoryPrompts(details) ==
    Concat([k \in DOMAIN details |->
               <<"*", "*">> \o details[k].name \o <<"*", "*", ":", "\n", details[k].id, "\n">>])

\* The combined prompt: the category, the subcategory prompts, the code.
BatchPromptText(category, details, code) ==
    <<"Analyze", " ", category, "\n">> \o SubcategoryPrompts(details)
        \o <<"CODE", "\n">> \o code

\* A faulty variant of get_batch_formatted_prompt: the text is returned even
\* when no subcategory was found.
get_batch_formatted_prompt_unguarded(repo, category, subcategory_ids, code_snippet) ==
    IF repo = "None" \/ subcategory_ids = <<>> THEN [prompt |-> NoPrompt, details |-> <<>>]
    ELSE IF ~HasCategory(category) THEN [prompt |-> NoPrompt, details |-> <<>>]
    ELSE LET details == SubcategoryDetails(category, subcategory_ids)
         IN  [prompt |-> [none |-> FALSE,
                          text |-> BatchPromptText(category, details, code_snippet)],
              details |-> details]

\* get_batch_formatted_prompt(repository, "python", category, subcategory_ids,
\* code_snippet): (None, []) for an empty id list, when no id is found, and
\* when the lookup raises (no repository, no such category).
get_batch_formatted_prompt(repo, category, subcategory_ids, code_snippet) ==
    IF subcategory_ids = <<>> THEN [prompt |-> NoPrompt, details |-> <<>>]
    ELSE IF repo = "None" THEN [prompt |-> NoPrompt, details |-> <<>>]
    ELSE IF ~HasCategory(category) THEN [prompt |-> NoPrompt, details |-> <<>>]
    ELSE LET details == SubcategoryDetails(category, subcategory_ids)
         IN  IF details = <<>> THEN [prompt |-> NoPrompt, details |-> <<>>]
             ELSE [prompt |-> [none |-> FALSE,
                               text |-> BatchPromptText(category, details, code_snippet)],
                   details |-> details]

\* The call of get_batch_formatted_prompt.
GetBatchFormattedPrompt ==
    /\ comp_fn = "function" /\ comp_pc = "call"
    /\ LET r == get_batch_formatted_prompt(comp_repository, comp_category, comp_ids,
                                           FileContent(1))
       IN  comp_prompt' = r.prompt /\ comp_details' = r.details
    /\ comp_pc' = "returned"
    /\ UNCHANGED <<exceptComposer, comp_fn, comp_repository, comp_category, comp_ids>>

\* The composition in the batch loop of scan_file_batch for one subcategory
\* batch: the details are collected, `if not subcategory_details: continue`
\* leaves the batch without a prompt, otherwise the prompt ends with the
\* combined content and is sent.
ComposeBatchPrompt ==
    /\ comp_fn = "inline" /\ comp_pc = "call"
    /\ LET details == SubcategoryDetails(comp_category, comp_ids)
       IN  /\ comp_details' = details
           /\ comp_prompt' = IF details = <<>> THEN NoPrompt
                             ELSE [none |-> FALSE,
                                   text |-> BatchPromptText(comp_category, details,
                                                            FileContent(1))]
    /\ comp_pc' = "returned"
    /\ UNCHANGED <<exceptComposer, comp_fn, comp_repository, comp_category, comp_ids>>

ComposerInit ==
    /\ ChunkIdle
    /\ ParseIdle
    /\ UiIdle
    /\ AnalyzerIdle
    /\ TokensIdle
    /\ fs \in FileSystems(0, {})
    /\ BatcherIdle
    /\ ScanIdle
    /\ SplitIdle
    /\ SegIdle
    /\ ReportIdle
    /\ PromptsIdle
    /\ MainIdle
    /\ comp_fn \in {"function", "inline"}
    /\ comp_repository \in (IF comp_fn = "function" THEN {"loaded", "None"} ELSE {"loaded"})
    /\ comp_category \in (IF comp_fn = "function" THEN FilterNames
                          ELSE {"security", "performance"})
    /\ comp_ids \in IdLists(MaxIds)
    /\ comp_pc = "call"
    /\ comp_prompt = NoPrompt
    /\ comp_details = <<>>

ComposerNext == GetBatchFormattedPrompt \/ ComposeBatchPrompt

ComposerSpec == ComposerInit /\ [][ComposerNext]_vars

\* ------------------------------------------------- estimate_tokens calls
\* Longest text handed to estimate_tokens, in characters.
MaxTextLen == 6

\* The texts of up to k characters.
Texts(k) == UNION {[1..n -> {"a", "\n"}] : n \in 0..k}

\* estimate_tokens(text)
EstimateTokens ==
    /\ est_pc = "call"
    /\ est_result' = estimate_tokens(Len(est_text))
    /\ est_pc' = "returned"
    /\ UNCHANGED <<exceptTokens, est_text>>

TokensInit ==
    /\ ChunkIdle
    /\ ParseIdle
    /\ UiIdle
    /\ AnalyzerIdle
    /\ fs \in FileSystems(0, {})
    /\ BatcherIdle
    /\ ScanIdle
    /\ SplitIdle
    /\ SegIdle
    /\ ReportIdle
    /\ PromptsIdle
    /\ MainIdle
    /\ ComposerIdle
    /\ est_text \in Texts(MaxTextLen)
    /\ est_pc = "call"
    /\ est_result = 0

TokensNext == EstimateTokens

TokensSpec == TokensInit /\ [][TokensNext]_vars

\* ----------------------------------------------------------- CodeAnalyzer
\* Most files the glob of scan_codebase yields.
MaxAnalyzerFiles == 2

\* Most calls of a scan that do not give an issue (an error, or an answer
\* without issues).
MaxPlainCalls == 2

\* The numbers of chunks chunk_code splits a file into.
ChunkCounts == {1, 2}

\* The files under the scanned directory.
AnalyzerFiles(k) ==
    UNION {[1..n -> [readable : BOOLEAN, chunks : ChunkCounts]] : n \in 0..k}

\* prompt_manager.get_prompts(language, categories)
AnalyzerPrompts ==
    << [category |-> "security", subcategory |-> "Injection"],
       [category |-> "performance", subcategory |-> "Loops"] >>

\* The issue _parse_response makes of a bullet of the response.
Issue(prompt, file, chunk_index) ==
    [category |-> prompt.category, subcategory |-> prompt.subcategory,
     file_path |-> file, chunk_index |-> chunk_index]

\* _parse_response(response, ...): no issue for a response that says "no
\* issues", one issue for each bullet (the response has one).
ParseResponse(outcome, prompt, file, chunk_index) ==
    IF outcome = "no_issues" THEN <<>> ELSE <<Issue(prompt, file, chunk_index)>>

\* The calls that gave no issue so far.
PlainCalls == Cardinality({k \in DOMAIN an_calls : an_calls[k].outcome # "issue"})

\* The record of the call that is made now.
AnalyzerCall(outcome) ==
    [file |-> an_fi + 1, chunk |-> an_chi, prompt |-> an_pi + 1, outcome |-> outcome]

\* scan_codebase, directory branch: scan_file is called on the next file.  A
\* file that cannot be read raises inside the try of scan_file, which returns
\* its empty list; a file without prompts returns the empty list as well.
AnScanFile ==
    /\ an_pc = "files" /\ an_fi < Len(an_files)
    /\ IF an_files[an_fi + 1].readable /\ an_prompts # <<>>
       THEN /\ an_file_issues' = <<>>
            /\ an_chi' = 0
            /\ an_pc' = "chunks"
            /\ UNCHANGED <<an_fi, an_results>>
       ELSE /\ an_results' = [an_results EXCEPT !.files_scanned = @ + 1]
            /\ an_fi' = an_fi + 1
            /\ UNCHANGED <<an_file_issues, an_chi, an_pc>>
    /\ UNCHANGED <<exceptAnalyzer, an_files, an_prompts, an_pi, an_calls, an_chunk_issues>>

\* scan_file: `for i, chunk in enumerate(code_chunks)`, _process_code_chunk is
\* entered for the next chunk.
AnProcessChunk ==
    /\ an_pc = "chunks" /\ an_chi < an_files[an_fi + 1].chunks
    /\ an_chunk_issues' = <<>>
    /\ an_pi' = 0
    /\ an_pc' = "prompts"
    /\ UNCHANGED <<exceptAnalyzer, an_files, an_prompts, an_fi, an_chi, an_calls,
                   an_file_issues, an_results>>

\* _process_code_chunk: the API answers for the next prompt, the issues of the
\* response are added.
AnCallResponds ==
    /\ an_pc = "prompts" /\ an_pi < Len(an_prompts)
    /\ \E outcome \in {"issue", "no_issues"} :
          /\ outcome = "no_issues" => PlainCalls < MaxPlainCalls
          /\ an_calls' = Append(an_calls, AnalyzerCall(outcome))
          /\ an_chunk_issues' = an_chunk_issues
                 \o ParseResponse(outcome, an_prompts[an_pi + 1], an_fi + 1, an_chi)
    /\ an_pi' = an_pi + 1
    /\ UNCHANGED <<exceptAnalyzer, an_files, an_prompts, an_pc, an_fi, an_chi,
                   an_file_issues, an_results>>

\* A faulty variant of AnCallFails: the error leaves the prompt loop.
AnCallFailsAborts ==
    /\ an_pc = "prompts" /\ an_pi < Len(an_prompts)
    /\ PlainCalls < MaxPlainCalls
    /\ an_calls' = Append(an_calls, AnalyzerCall("error"))
    /\ an_pi' = Len(an_prompts)
    /\ UNCHANGED <<exceptAnalyzer, an_files, an_prompts, an_pc, an_fi, an_chi,
                   an_chunk_issues, an_file_issues, an_results>>

\* _process_code_chunk: _call_cerebras_api logs and re-raises the error of the
\* SDK, the `except Exception` around the call logs it, the loop goes on.
AnCallFails ==
    /\ an_pc = "prompts" /\ an_pi < Len(an_prompts)
    /\ PlainCalls < MaxPlainCalls
    /\ an_calls' = Append(an_calls, AnalyzerCall("error"))
    /\ an_pi' = an_pi + 1
    /\ UNCHANGED <<exceptAnalyzer, an_files, an_prompts, an_pc, an_fi, an_chi,
                   an_chunk_issues, an_file_issues, an_results>>

\* _process_code_chunk returns its issues, scan_file extends its own with them.
AnChunkReturn ==
    /\ an_pc = "prompts" /\ an_pi = Len(an_prompts)
    /\ an_file_issues' = an_file_issues \o an_chunk_issues
    /\ an_chi' = an_chi + 1
    /\ an_pc' = "chunks"
    /\ UNCHANGED <<exceptAnalyzer, an_files, an_prompts, an_fi, an_pi, an_calls,
                   an_chunk_issues, an_results>>

\* scan_file returns its issues, scan_codebase extends results["issues"].
AnFileReturn ==
    /\ an_pc = "chunks" /\ an_chi = an_files[an_fi + 1].chunks
    /\ an_results' = [an_results EXCEPT !.issues = @ \o an_file_issues,
                                        !.files_scanned = @ + 1]
    /\ an_fi' = an_fi + 1
    /\ an_pc' = "files"
    /\ UNCHANGED <<exceptAnalyzer, an_files, an_prompts, an_chi, an_pi, an_calls,
                   an_chunk_issues, an_file_issues>>

\* scan_codebase: the files are done, the statistics are updated, return.
AnCodebaseReturn ==
    /\ an_pc = "files" /\ an_fi = Len(an_files)
    /\ an_results' = [an_results EXCEPT !.total_issues = Len(an_results.issues)]
    /\ an_pc' = "done"
    /\ UNCHANGED <<exceptAnalyzer, an_files, an_prompts, an_fi, an_chi, an_pi, an_calls,
                   an_chunk_issues, an_file_issues>>

AnalyzerInit ==
    /\ ChunkIdle
    /\ ParseIdle
    /\ UiIdle
    /\ fs \in FileSystems(0, {})
    /\ BatcherIdle
    /\ ScanIdle
    /\ SplitIdle
    /\ SegIdle
    /\ ReportIdle
    /\ PromptsIdle
    /\ MainIdle
    /\ ComposerIdle
    /\ TokensIdle
    /\ an_files \in AnalyzerFiles(MaxAnalyzerFiles)
    /\ an_prompts \in {AnalyzerPrompts, <<>>}
    /\ an_pc = "files"
    /\ an_fi = 0 /\ an_chi = 0 /\ an_pi = 0
    /\ an_calls = <<>> /\ an_chunk_issues = <<>> /\ an_file_issues = <<>>
    /\ an_results = [issues |-> <<>>, files_scanned |-> 0, total_issues |-> 0]

AnalyzerNext ==
    \/ AnScanFile \/ AnProcessChunk \/ AnCallResponds \/ AnCallFails
    \/ AnChunkReturn \/ AnFileReturn \/ AnCodebaseReturn

AnalyzerSpec == AnalyzerInit /\ [][AnalyzerNext]_vars

\* ------------------------------------------------------------------ the UI
\* The options of the multiselect.
UiCategories == {"SQL Injection", "Authentication", "Input Validation", "Cryptographic Issues"}

\* The selections: the options picked, each once, in the order of picking.
Selections ==
    UNION {{s \in [1..n -> UiCategories] : \A i, j \in 1..n : s[i] = s[j] => i = j} :
              n \in 0..Cardinality(UiCategories)}

\* category.lower().replace(" ", "_")
CategoryKey(category) ==
    IF category = "SQL Injection" THEN "sql_injection"
    ELSE IF category = "Authentication" THEN "authentication"
    ELSE IF category = "Input Validation" THEN "input_validation"
    ELSE "cryptographic_issues"

\* An element written to the page.
Shown(kind, text) == [kind |-> kind, text |-> text]

\* ui main, button pressed with an empty text area: st.error, return.
UiNoCode ==
    /\ ui_pc = "pressed" /\ ui_code = <<>>
    /\ ui_shown' = Append(ui_shown, Shown("error", "Please enter some code to analyze."))
    /\ ui_pc' = "done"
    /\ UNCHANGED <<exceptUi, ui_code, analysis_type, tasks>>

\* ui main, button pressed with code: the scanner is fetched, tasks = [].
UiStart ==
    /\ ui_pc = "pressed" /\ ui_code # <<>>
    /\ tasks' = <<>>
    /\ ui_pc' = "tasks"
    /\ UNCHANGED <<exceptUi, ui_code, analysis_type, ui_shown>>

\* `for category in analysis_type`: scanner.analyze_code(code, category_key)
\* makes a coroutine object (nothing of analyze_code runs), it is appended.
UiCreateTask ==
    /\ ui_pc = "tasks" /\ Len(tasks) < Len(analysis_type)
    /\ tasks' = Append(tasks, CategoryKey(analysis_type[Len(tasks) + 1]))
    /\ UNCHANGED <<exceptUi, ui_code, analysis_type, ui_pc, ui_shown>>

\* asyncio.run(asyncio.gather(*tasks)): gather is called with no running event
\* loop and asyncio.run is handed a future, not a coroutine; one of the two
\* raises (RuntimeError or ValueError) before any coroutine is started, and
\* the `except Exception` of main writes one error for the whole analysis.
UiGatherRaises ==
    /\ ui_pc = "tasks" /\ Len(tasks) = Len(analysis_type)
    /\ ui_shown' = Append(ui_shown, Shown("error", "An error occurred during analysis"))
    /\ ui_pc' = "done"
    /\ UNCHANGED <<exceptUi, ui_code, analysis_type, tasks>>

UiInit ==
    /\ ChunkIdle
    /\ ParseIdle
    /\ fs \in FileSystems(0, {})
    /\ BatcherIdle
    /\ ScanIdle
    /\ SplitIdle
    /\ SegIdle
    /\ ReportIdle
    /\ PromptsIdle
    /\ MainIdle
    /\ ComposerIdle
    /\ TokensIdle
    /\ AnalyzerIdle
    /\ ui_code \in {<<>>, FileContent(1)}
    /\ analysis_type \in Selections
    /\ ui_pc = "pressed"
    /\ tasks = <<>>
    /\ ui_shown = <<>>

UiNext == UiNoCode \/ UiStart \/ UiCreateTask \/ UiGatherRaises

UiSpec == UiInit /\ [][UiNext]_vars

\* ---------------------------------------------- parse_batch_response calls
\* Most prompts of a batch: scan_file splits its prompts in batches of 3.
MaxParsePrompts == 3

\* The batches of up to k consecutive prompts of the repository.
ParseBatches(k) ==
    LET all == get_prompts_for_language(<<>>, <<>>)
        spans == {s \in (1..Len(all)) \X (1..k) : s[1] + s[2] - 1 <= Len(all)}
    IN  {SubSeq(all, s[1], s[1] + s[2] - 1) : s \in spans}

RECURSIVE SectionsInOrder(_, _)
\* A model answer with the "## ANALYSIS i: ..." section of the prompts named
\* by order, in that order.
SectionsInOrder(prompts, order) ==
    IF order = <<>> THEN <<>>
    ELSE SectionHeader(Head(order), prompts[Head(order)])
             \o <<"\n", "finding">> \o Decimal(Head(order)) \o <<"\n">>
         \o SectionsInOrder(prompts, Tail(order))

\* The lists of distinct positions of a batch of n prompts.
HeaderOrders(n) ==
    {o \in UNION {[1..len -> 1..n] : len \in 0..n} :
        \A i, j \in DOMAIN o : i # j => o[i] # o[j]}

\* The texts handed to parse_batch_response: the sections of some of the
\* prompts in some order, or a text without any header.
ParseResponses(prompts) ==
    {SectionsInOrder(prompts, o) : o \in HeaderOrders(Len(prompts))} \cup {PlainResponse}

\* parse_batch_response(response_text, prompts) returns its list.
ParseBatchResponse ==
    /\ par_pc = "call"
    /\ par_analyses' = parse_batch_response(par_response, par_prompts)
    /\ par_pc' = "returned"
    /\ UNCHANGED <<exceptParse, par_prompts, par_response>>

ParseInit ==
    /\ ChunkIdle
    /\ UiIdle
    /\ AnalyzerIdle
    /\ fs \in FileSystems(0, {})
    /\ BatcherIdle
    /\ ScanIdle
    /\ SplitIdle
    /\ SegIdle
    /\ ReportIdle
    /\ PromptsIdle
    /\ MainIdle
    /\ ComposerIdle
    /\ TokensIdle
    /\ par_prompts \in ParseBatches(MaxParsePrompts)
    /\ par_response \in ParseResponses(par_prompts)
    /\ par_pc = "call"
    /\ par_analyses = <<>>

ParseNext == ParseBatchResponse

ParseSpec == ParseInit /\ [][ParseNext]_vars

\* ------------------------------------------------------------- chunk_code
\* Here a text is a sequence of characters.

\* Longest code handed to chunk_code.
MaxCodeLen == 8

\* Largest max_tokens handed to chunk_code.
MaxChunkTokens == 2

\* The codes of at most k characters: letters and newlines.
Codes(k) == UNION {[1..n -> {"a", "\n"}] : n \in 0..k}

RECURSIVE SplitLines(_)
\* code.split("\n"): the pieces between the newlines, at least one.
SplitLines(code) ==
    IF \A p \in DOMAIN code : code[p] # "\n" THEN <<code>>
    ELSE LET p == Min({q \in DOMAIN code : code[q] = "\n"})
         IN  <<SubSeq(code, 1, p - 1)>> \o SplitLines(SubSeq(code, p + 1, Len(code)))

RECURSIVE JoinLines(_)
\* "\n".join(lines)
JoinLines(lines) ==
    IF lines = <<>> THEN <<>>
    ELSE IF Len(lines) = 1 THEN lines[1]
    ELSE lines[1] \o <<"\n">> \o JoinLines(Tail(lines))

\* A faulty variant of StartsNewChunk: the test `and current_chunk` is left out.
StartsNewChunkWhenEmpty(current_chunk, current_size, line_size, max_chars) ==
    current_size + line_size > max_chars

\* `if current_size + line_size > max_chars and current_chunk:`
StartsNewChunk(current_chunk, current_size, line_size, max_chars) ==
    current_size + line_size > max_chars /\ current_chunk # <<>>

RECURSIVE ChunkLoop(_, _, _, _, _)
\* `for line in lines` from the first of lines on, then the last chunk.
ChunkLoop(lines, chunks, current_chunk, current_size, max_chars) ==
    IF lines = <<>>
    THEN IF current_chunk # <<>> THEN Append(chunks, JoinLines(current_chunk)) ELSE chunks
    ELSE LET line == Head(lines)
             line_size == Len(line) + 1
         IN  IF StartsNewChunk(current_chunk, current_size, line_size, max_chars)
             THEN ChunkLoop(Tail(lines), Append(chunks, JoinLines(current_chunk)),
                            <<line>>, line_size, max_chars)
             ELSE ChunkLoop(Tail(lines), chunks, Append(current_chunk, line),
                            current_size + line_size, max_chars)

\* chunk_code(code, max_tokens), mt for max_tokens
chunk_code(code, mt) ==
    LET max_chars == mt * 5
    IN  IF Len(code) <= max_chars THEN <<code>>
        ELSE ChunkLoop(SplitLines(code), <<>>, <<>>, 0, max_chars)

\* chunk_code(code, max_tokens) returns its list.
ChunkCode ==
    /\ chk_pc = "call"
    /\ chk_chunks' = chunk_code(chk_code, chk_max_tokens)
    /\ chk_pc' = "returned"
    /\ UNCHANGED <<exceptChunk, chk_code, chk_max_tokens>>

ChunkInit ==
    /\ ParseIdle
    /\ UiIdle
    /\ AnalyzerIdle
    /\ fs \in FileSystems(0, {})
    /\ BatcherIdle
    /\ ScanIdle
    /\ SplitIdle
    /\ SegIdle
    /\ ReportIdle
    /\ PromptsIdle
    /\ MainIdle
    /\ ComposerIdle
    /\ TokensIdle
    /\ chk_code \in Codes(MaxCodeLen)
    /\ chk_max_tokens \in 1..MaxChunkTokens
    /\ chk_pc = "call"
    /\ chk_chunks = <<>>

ChunkNext == ChunkCode

ChunkSpec == ChunkInit /\ [][ChunkNext]_vars

\* ------------------------------------------------------------ main calls
\* Most files a scanned directory holds.
MaxDirFiles == 2

\* A file under the scanned path: a .py file with code ("code"), a .py file
\* with nothing but white space ("empty"), a .py file open() fails on
\* ("unreadable"), a .py file a .scanignore pattern matches ("ignored"), a
\* file with no supported extension ("other").
FileKinds == {"code", "empty", "unreadable", "ignored", "other"}

\* What args.path names: nothing, one file, or a directory of files.  Ignore
\* patterns are read by scan_directory only.
PathChoices(k) ==
    {[kind |-> "absent", files |-> <<>>]}
    \cup {[kind |-> "file", files |-> <<f>>] : f \in FileKinds \ {"ignored"}}
    \cup UNION {{[kind |-> "dir", files |-> fl] : fl \in [1..n -> FileKinds]} : n \in 0..k}

\* load_prompt_repository(repo_file): the content of the file, the built-in
\* repository when the file does not exist, None when it does not parse.
load_prompt_repository(file_state) ==
    IF file_state = "ok" THEN "loaded"
    ELSE IF file_state = "missing" THEN "built-in"
    ELSE "None"

\* should_scan_file(file_path)[0]: the extension is a supported one.
should_scan_file(kind) == kind # "other"

\* should_ignore_path(file_path, ignore_patterns) in scan_directory.
should_ignore_path(kind) == kind = "ignored"

\* What scan_file(file_path, repository, categories, subcategories) hands to
\* its caller: None ("None"), the result dict ("result"), or nothing because
\* initialize_client ended the process on the first gateway call ("SystemExit").
\* The built-in repository has the categories of the loaded one.
ScanFileOutcome(kind, repo, cats, key) ==
    IF ~should_scan_file(kind) THEN "None"
    ELSE IF kind = "unreadable" THEN "None"
    ELSE IF kind = "empty" THEN "None"
    ELSE IF repo = "None" THEN "None"
    ELSE IF get_prompts_for_language(cats, <<>>) = <<>> THEN "None"
    ELSE IF ~key THEN "SystemExit"
    ELSE "result"

\* The result dict of a scan; `analyses` counts the gateway calls that were
\* answered, 0 when every call of the scan failed.
ScanResult(file, analyses) == [file |-> file, analyses |-> analyses]

\* main, first statements: the arguments are parsed, the repository is loaded.
MainLoadRepository ==
    /\ mpc = "start"
    /\ repository' = load_prompt_repository(repo_file)
    /\ mpc' = "dispatch"
    /\ UNCHANGED <<exceptMain, repo_file, api_key, scan_path, arg_categories, wi,
                   scanned, main_result, exit_code, exit_cause>>

\* main, else branch: the path is neither a file nor a directory, return 1.
MainPathNotFound ==
    /\ mpc = "dispatch"
    /\ scan_path.kind = "absent"
    /\ exit_code' = 1
    /\ exit_cause' = "path_not_found"
    /\ mpc' = "exited"
    /\ UNCHANGED <<exceptMain, repo_file, api_key, scan_path, arg_categories,
                   repository, wi, scanned, main_result>>

\* main, os.path.isfile branch: result = scan_file(args.path, ...).
MainScanFile ==
    /\ mpc = "dispatch"
    /\ scan_path.kind = "file"
    /\ scanned' = Append(scanned, 1)
    /\ LET outcome == ScanFileOutcome(scan_path.files[1], repository, arg_categories, api_key)
       IN  IF outcome = "SystemExit"
           THEN /\ exit_code' = 1
                /\ exit_cause' = "sys.exit"
                /\ mpc' = "exited"
                /\ UNCHANGED main_result
           ELSE /\ IF outcome = "None" THEN main_result' = <<>>
                   ELSE \E n \in 0..1 : main_result' = <<ScanResult(1, n)>>
                /\ mpc' = "format"
                /\ UNCHANGED <<exit_code, exit_cause>>
    /\ UNCHANGED <<exceptMain, repo_file, api_key, scan_path, arg_categories,
                   repository, wi>>

\* main, os.path.isdir branch: scan_directory is entered, results = [].
MainScanDirectory ==
    /\ mpc = "dispatch"
    /\ scan_path.kind = "dir"
    /\ wi' = 0
    /\ main_result' = <<>>
    /\ mpc' = "walk"
    /\ UNCHANGED <<exceptMain, repo_file, api_key, scan_path, arg_categories,
                   repository, scanned, exit_code, exit_cause>>

\* scan_directory, one file of the walk that is ignored or of no supported
\* type: continue.
WalkSkip ==
    /\ mpc = "walk"
    /\ wi < Len(scan_path.files)
    /\ LET kind == scan_path.files[wi + 1]
       IN  should_ignore_path(kind) \/ ~should_scan_file(kind)
    /\ wi' = wi + 1
    /\ UNCHANGED <<exceptMain, repo_file, api_key, scan_path, arg_categories, mpc,
                   repository, scanned, main_result, exit_code, exit_cause>>

\* scan_directory, one file of the walk: scan_file is called on it,
\* `if result: results.append(result)`.
WalkScan ==
    /\ mpc = "walk"
    /\ wi < Len(scan_path.files)
    /\ LET kind == scan_path.files[wi + 1]
           outcome == ScanFileOutcome(kind, repository, arg_categories, api_key)
       IN  /\ ~should_ignore_path(kind)
           /\ should_scan_file(kind)
           /\ IF outcome = "SystemExit"
              THEN /\ exit_code' = 1
                   /\ exit_cause' = "sys.exit"
                   /\ mpc' = "exited"
                   /\ UNCHANGED main_result
              ELSE /\ IF outcome = "None" THEN UNCHANGED main_result
                      ELSE \E n \in 0..1 :
                               main_result' = Append(main_result, ScanResult(wi + 1, n))
                   /\ UNCHANGED <<exit_code, exit_cause, mpc>>
    /\ scanned' = Append(scanned, wi + 1)
    /\ wi' = wi + 1
    /\ UNCHANGED <<exceptMain, repo_file, api_key, scan_path, arg_categories, repository>>

\* scan_directory: the walk is over, return results.
WalkReturn ==
    /\ mpc = "walk"
    /\ wi = Len(scan_path.files)
    /\ mpc' = "format"
    /\ UNCHANGED <<exceptMain, repo_file, api_key, scan_path, arg_categories,
                   repository, wi, scanned, main_result, exit_code, exit_cause>>

\* format_results(result, args.output) raises: result is the list scan_directory
\* returned, not empty, and a list has no attribute `get`.
FormatRaises == scan_path.kind = "dir" /\ main_result # <<>>

\* main: format_results(result, args.output), then return 0.  An empty result
\* is only warned about; an error writing the output file is logged.
MainFormatResults ==
    /\ mpc = "format"
    /\ IF FormatRaises
       THEN exit_code' = 1 /\ exit_cause' = "AttributeError"
       ELSE exit_code' = 0 /\ exit_cause' = "return"
    /\ mpc' = "exited"
    /\ UNCHANGED <<exceptMain, repo_file, api_key, scan_path, arg_categories,
                   repository, wi, scanned, main_result>>

\* The values of --categories: none given, or a category no repository has.
ArgCategoryChoices == {<<>>, <<"style">>}

MainInit ==
    /\ ChunkIdle
    /\ ParseIdle
    /\ UiIdle
    /\ AnalyzerIdle
    /\ TokensIdle
    /\ ComposerIdle
    /\ fs \in FileSystems(0, {})
    /\ BatcherIdle
    /\ ScanIdle
    /\ SplitIdle
    /\ SegIdle
    /\ ReportIdle
    /\ PromptsIdle
    /\ repo_file \in {"ok", "missing", "malformed"}
    /\ api_key \in BOOLEAN
    /\ scan_path \in PathChoices(MaxDirFiles)
    /\ arg_categories \in ArgCategoryChoices
    /\ mpc = "start"
    /\ repository = "unset"
    /\ wi = 0
    /\ scanned = <<>>
    /\ main_result = <<>>
    /\ exit_code = -1
    /\ exit_cause = "none"

MainNext ==
    \/ MainLoadRepository \/ MainPathNotFound \/ MainScanFile \/ MainScanDirectory
    \/ WalkSkip \/ WalkScan \/ WalkReturn \/ MainFormatResults

MainSpec == MainInit /\ [][MainNext]_vars

\* ------------------------------------------------ claims about the batcher
AllReadable == \A j \in DOMAIN files : fs[files[j]].readable

\* The cost of a readable file as the claims state it: estimate_tokens + 100.
Cost(path) == (fs[path].size \div 4) + 100

BatchCost(b) == SumSeq([j \in DOMAIN b |-> Cost(b[j])])

\* The effective budget as the claims state it.
Budget == max_tokens - 2000

\* C2: when every file is readable, the returned batches concatenated in order
\* are exactly the input list (nothing dropped, duplicated or reordered) and no
\* returned batch is empty.
C2_Partition ==
    (gpc = "done" /\ AllReadable) =>
        /\ Concat(batches) = files
        /\ \A b \in DOMAIN batches : batches[b] # <<>>

\* C2 witness: three readable files were split into at least two batches.
C2_Witness ==
    gpc = "done" /\ AllReadable /\ Len(files) = 3 /\ Len(batches) = 2

\* C3: every returned batch of two or more files costs at most max_tokens - 2000.
C3_BudgetRespected ==
    gpc = "done" =>
        \A b \in DOMAIN batches :
            Len(batches[b]) >= 2 =>
                /\ \A j \in DOMAIN batches[b] : fs[batches[b][j]].readable
                /\ BatchCost(batches[b]) <= Budget

\* C3 witness: a batch of two files fills the budget exactly, next to a batch of
\* one file that exceeds it.
C3_Witness ==
    /\ gpc = "done"
    /\ \E b \in DOMAIN batches : Len(batches[b]) = 2 /\ BatchCost(batches[b]) = Budget
    /\ \E b \in DOMAIN batches :
          /\ Len(batches[b]) = 1
          /\ fs[batches[b][1]].readable
          /\ BatchCost(batches[b]) > Budget

\* C4: a readable file that alone costs more than max_tokens - 2000 is in the
\* output exactly once, in a batch that holds only that file.
C4_OversizedIsolated ==
    gpc = "done" =>
        \A j \in DOMAIN files :
            (fs[files[j]].readable /\ Cost(files[j]) > Budget) =>
                /\ Cardinality({b \in DOMAIN batches : files[j] \in Range(batches[b])}) = 1
                /\ \A b \in DOMAIN batches :
                      files[j] \in Range(batches[b]) => batches[b] = <<files[j]>>

\* C4 witness: an oversized file stands between two small files that would fit
\* in one batch together.
C4_Witness ==
    /\ gpc = "done" /\ AllReadable /\ Len(files) = 3
    /\ Cost(files[2]) > Budget
    /\ Cost(files[1]) + Cost(files[3]) <= Budget
    /\ batches = << <<files[1]>>, <<files[2]>>, <<files[3]>> >>

\* C5 as stated: every list of readable files whose costs sum to at most
\* max_tokens - 2000 comes back as exactly one batch holding all the files.
C5_Original ==
    (gpc = "done" /\ AllReadable /\ BatchCost(files) <= Budget) =>
        batches = <<files>>

\* C5 amended: every NON-EMPTY list of readable files whose costs sum to at most
\* max_tokens - 2000 comes back as exactly one batch holding all the files in
\* input order (the empty list comes back as no batch at all).
C5_SingleBatch ==
    (gpc = "done" /\ AllReadable /\ BatchCost(files) <= Budget) =>
        /\ files # <<>> => batches = <<files>>
        /\ files = <<>> => batches = <<>>

\* C5 witness: several files whose costs sum to the budget exactly.
C5_Witness ==
    /\ gpc = "done" /\ AllReadable /\ Len(files) >= 2
    /\ BatchCost(files) = Budget
    /\ batches = <<files>>

Unreadable(path) == ~fs[path].readable

IsReadable(path) == fs[path].readable

\* A returned batch that is the batch of its own of an unreadable file.
IsErrorBatch(b) == Len(b) = 1 /\ Unreadable(b[1])

IsRegularBatch(b) == ~IsErrorBatch(b)

AnalysesOf(results, res, path) ==
    IF entry = "batch"
    THEN IF FileResultIndex(results, path) = 0 THEN <<>>
         ELSE results[FileResultIndex(results, path)].analyses
    ELSE IF path = 1 THEN res.analyses ELSE <<>>

ScanPaths == 1..MaxFiles

\* The unit a record is tagged with.
UnitOf(analysis) ==
    [category |-> analysis.category, subcategory_id |-> analysis.subcategory_id]

RECURSIVE ExpectedBatchCalls(_, _)
\* The units of the prompts scan_file_batch has to send for the categories cats.
ExpectedBatchCalls(cats, subs) ==
    IF cats = <<>> THEN <<>>
    ELSE LET c == Head(cats)
             sb == IF SkipsCategory(c, subs) THEN <<>>
                   ELSE split_into_batches(SelectedSubcategories(c, subs), 3)
         IN  [k \in DOMAIN sb |-> BatchUnits(c, SubcategoryDetails(c, sb[k]))]
             \o ExpectedBatchCalls(Tail(cats), subs)

\* The units of the prompts the running scan has to send in all.
ExpectedCalls ==
    IF entry = "batch" THEN ExpectedBatchCalls(categories, subcategories)
    ELSE LET pb == PromptBatches(categories, subcategories)
         IN  [k \in DOMAIN pb |-> PromptUnits(pb[k])]

\* The scan got as far as its batch loop.
ScanStarted == IF entry = "batch" THEN file_info # <<>> ELSE ~result.none

\* C1: whatever gateway failure (timeout or network error, auth failure, missing
\* API key, rate limit, malformed response) hits a batch, the scan does not
\* abort, the failed batch contributes no record, and every remaining batch is
\* still sent: the finished scan has sent all its prompts.
C1_FailureIsolated ==
    /\ spc # "exited"
    /\ \A c \in DOMAIN calls :
          ~calls[c].ok =>
              \A p \in ScanPaths :
                  \A a \in DOMAIN AnalysesOf(batch_results, result, p) :
                      ~InList(UnitOf(AnalysesOf(batch_results, result, p)[a]), calls[c].units)
    /\ (spc = "done" /\ ScanStarted) =>
          [c \in DOMAIN calls |-> calls[c].units] = ExpectedCalls

\* No (file, analysis) section header of the prompts is in the response.
NoSectionHeader(response_text, prompts) ==
    \A i \in DOMAIN prompts : HeaderPosition(response_text, i, prompts[i]) = -1

\* The records scan_file_batch owes a file for the current prompt when they
\* all hold `content`.
RecordsWith(category, details, content) ==
    [k \in DOMAIN details |->
        [category |-> category, subcategory |-> details[k].name,
         subcategory_id |-> details[k].id, content |-> content]]

\* C7: when a non-empty response has no section for a unit, the whole response
\* is the content: in scan_file_batch a file whose section is not found gets one
\* record per subcategory of the batch holding the full response, and in
\* parse_batch_response (scan_file) a response without any section header gives
\* one record per prompt holding the full response.
C7_WholeResponseFallback ==
    [][(spc = "aggregate" /\ response.text # <<>>) =>
          IF entry = "batch"
          THEN \A k \in DOMAIN file_info :
                  ~extract_file_section(response.text, file_info[k].file_marker).found =>
                      AnalysesOf(batch_results', result', file_info[k].file_path)
                        = AnalysesOf(batch_results, result, file_info[k].file_path)
                            \o RecordsWith(categories[ci + 1], subcategory_details,
                                           response.text)
          ELSE NoSectionHeader(response.text, subcategory_batches[bi + 1]) =>
                  result'.analyses
                    = result.analyses
                        \o WholeResponseForEach(response.text, subcategory_batches[bi + 1])
      ]_vars

\* The ids the records of a list are tagged with, in order.
IdsOf(analyses) == [k \in DOMAIN analyses |-> analyses[k].subcategory_id]

\* C8: aggregating a non-empty response adds exactly one record per subcategory
\* of the batch: parse_batch_response gives len(prompts) records tagged with the
\* prompts' ids (also when only some headers are in the response), and
\* scan_file_batch adds one record per subcategory to every file of the batch.
C8_OneRecordPerSubcategory ==
    [][(spc = "aggregate" /\ response.text # <<>>) =>
          IF entry = "file"
          THEN IdsOf(result'.analyses)
                 = IdsOf(result.analyses) \o IdsOf(subcategory_batches[bi + 1])
          ELSE \A k \in DOMAIN file_info :
                  IdsOf(AnalysesOf(batch_results', result', file_info[k].file_path))
                    = IdsOf(AnalysesOf(batch_results, result, file_info[k].file_path))
                        \o [d \in DOMAIN subcategory_details |-> subcategory_details[d].id]
      ]_vars

\* No two entries of batch_results are for the same file path.
NoDuplicateEntries(results) ==
    \A j, k \in DOMAIN results : results[j].file_path = results[k].file_path => j = k

\* C9: the accumulator only ever grows at the end: in every step of either scan
\* each file's list of records keeps its former value as a prefix, no entry of
\* batch_results goes away or moves, and no file path has two entries.
C9_AppendOnly ==
    [][/\ \A p \in ScanPaths :
             IsPrefix(AnalysesOf(batch_results, result, p),
                      AnalysesOf(batch_results', result', p))
       /\ Len(batch_results) <= Len(batch_results')
       /\ \A k \in DOMAIN batch_results :
             batch_results'[k].file_path = batch_results[k].file_path
       /\ NoDuplicateEntries(batch_results')
      ]_vars

\* C9 witness: scan_file_batch has returned results for two files, the first
\* with records of two subcategory batches and of two categories.
C9_Witness ==
    /\ entry = "batch" /\ spc = "done" /\ Len(batch_results) = 2
    /\ Len(batch_results[1].analyses) = 5
    /\ batch_results[1].analyses[1].category = "security"
    /\ batch_results[1].analyses[5].category = "performance"
    /\ Len(batch_results[2].analyses) >= 1

\* The section starts with a heading that carries exactly the marker: `#`s,
\* the marker, and no further digit.
HeadedBy(section, marker) ==
    LET e == HeadingAt(section, 1, marker)
    IN  e # 0 /\ (e > Len(section) \/ ~IsDigit(section[e]))

\* C10: every record of batch_results is keyed by a file of the batch and holds
\* the response section whose heading carries exactly that file's marker; a
\* heading with another marker (FILE_10 for FILE_1) is never taken for it.
C10_OwnSectionOnly ==
    \A r \in DOMAIN batch_results :
        /\ InList(batch_results[r].file_path, file_batch)
        /\ \A k \in DOMAIN file_info :
              file_info[k].file_path = batch_results[r].file_path =>
                  \A a \in DOMAIN batch_results[r].analyses :
                      HeadedBy(batch_results[r].analyses[a].content,
                               file_info[k].file_marker)

\* ------------------------------------- claims about combine_file_contents
\* scan_file_batch has called combine_file_contents.
Combined == entry = "batch" /\ spc # "start"

\* The positions of the batch whose file can be read and is not blank, in order.
IncludedPositions(fb) ==
    LET Included(i) == HasContent(fs, fb[i])
    IN  SelectSeq([i \in DOMAIN fb |-> i], Included)

\* The marker line `### FILE_<i>: <basename> ###` of the file at position i.
MarkerLineText(i, path) ==
    <<"#", "#", "#", " ", "FILE_">> \o Decimal(i) \o <<":", " ">> \o Basename(path)
        \o <<" ", "#", "#", "#">>

\* The marker lines of the positions pos, each followed by a blank line and the
\* content of its file, stand in the text in that order and nothing else does.
RECURSIVE HoldsMarkerLines(_, _, _)
HoldsMarkerLines(text, fb, pos) ==
    IF pos = <<>> THEN text = <<>>
    ELSE LET block == MarkerLineText(Head(pos), fb[Head(pos)]) \o <<"\n", "\n">>
                         \o FileContent(fb[Head(pos)])
             body == LStrip(text)
         IN  /\ IsPrefix(block, body)
             /\ HoldsMarkerLines(SubSeq(body, Len(block) + 1, Len(body)), fb, Tail(pos))

\* C11 as stated: the marker list matches the file batch one to one: for a batch
\* of k files it is FILE_1 .. FILE_k, the i-th marker belongs to the i-th file,
\* and the i-th marker line of the prompt text is `### FILE_i: <basename> ###`.
C11_Original ==
    Combined =>
        /\ Len(file_info) = Len(file_batch)
        /\ \A i \in DOMAIN file_info :
              /\ file_info[i].file_marker = <<"FILE_">> \o Decimal(i)
              /\ file_info[i].file_path = file_batch[i]
        /\ HoldsMarkerLines(combined_content, file_batch,
                            [i \in DOMAIN file_batch |-> i])

\* C11 amended: the marker list has one entry for every file of the batch that
\* can be read and is not blank, in batch order; the entry of the file at
\* position i of the batch carries the marker FILE_i (a skipped file leaves a
\* gap in the numbers) and its marker line is `### FILE_i: <basename> ###`.
C11_MarkersOfIncludedFiles ==
    Combined =>
        LET pos == IncludedPositions(file_batch)
        IN  /\ Len(file_info) = Len(pos)
            /\ \A j \in DOMAIN file_info :
                  /\ file_info[j].file_marker = <<"FILE_">> \o Decimal(pos[j])
                  /\ file_info[j].file_path = file_batch[pos[j]]
            /\ HoldsMarkerLines(combined_content, file_batch, pos)

\* C11 witness: the first file of a batch of two is skipped, the list holds
\* FILE_2 alone.
C11_Witness ==
    /\ Combined /\ Len(file_batch) = 2
    /\ ~HasContent(fs, file_batch[1])
    /\ Len(file_info) = 1
    /\ file_info[1].file_marker = <<"FILE_", "2">>
    /\ combined_content # <<>>

\* ---------------------------------------- claims about split_into_batches
\* C12: for max_batch_size n >= 1 every returned batch but the last has exactly
\* n items, the last has between 1 and n, the batches concatenated in order are
\* the input list, and the empty list gives the empty list (no empty batch).
C12_FixedSizeChunks ==
    (split_pc = "returned" /\ max_batch_size >= 1) =>
        /\ \A b \in DOMAIN split_result :
              IF b < Len(split_result) THEN Len(split_result[b]) = max_batch_size
              ELSE Len(split_result[b]) \in 1..max_batch_size
        /\ Concat(split_result) = items
        /\ items = <<>> => split_result = <<>>

\* C12 witness: seven items with max_batch_size 3 came back in sizes 3, 3, 1.
C12_Witness ==
    /\ split_pc = "returned" /\ Len(items) = 7 /\ max_batch_size = 3
    /\ Len(split_result) = 3
    /\ Len(split_result[1]) = 3 /\ Len(split_result[2]) = 3 /\ Len(split_result[3]) = 1

\* C13: split_into_batches is total and loses nothing: for every list and every
\* integer max_batch_size, 0 and negative values included, the call returns
\* (it does not raise), the input list is as it was, and every item of the
\* input is in the output.
C13_TotalAndLossless ==
    [][split_pc = "call" =>
          /\ split_pc' = "returned"
          /\ items' = items
          /\ Concat(split_result') = items
      ]_vars

\* ------------------------------------------- claims about the segmenter
\* C14: for a response made of any text, the heading line `## FILE_2: foo.py`,
\* a body up to the next `## FILE_` heading (or the end) and any text from that
\* heading on, extract_file_section(response, "FILE_2") returns exactly the
\* heading and its body, trimmed.
C14_SectionRoundTrip ==
    (seg_pc = "returned" /\ seg_fn = "file" /\ seg_name = <<"FILE_", "2">>) =>
        \A b \in TextsBefore, s \in SectionBodies, a \in TextsAfter :
            seg_content = b \o File2Heading \o s \o a =>
                seg_section = [found |-> TRUE, text |-> Strip(File2Heading \o s)]

\* The pieces a response to extract_subcategory_section may be made of.
PieceLists == UNION {[1..n -> PieceSpecs] : n \in 0..MaxPieces}

\* The words of a name in lower case, its punctuation and spaces left out.
WordsOf(name) ==
    LET words == SelectSeq(name, IsWordToken)
    IN  [k \in DOMAIN words |-> Lower(words[k])]

\* The written name is the name, up to case and punctuation.
OccursAs(written, name) == WordsOf(written) = WordsOf(name)

\* The written name is the name character by character, up to case.
Verbatim(written, name) ==
    /\ Len(written) = Len(name)
    /\ \A k \in DOMAIN name : Lower(written[k]) = Lower(name[k])

\* The pieces of the given kind that carry the name.
PiecesOf(ps, kind, name) ==
    {k \in DOMAIN ps : ps[k].kind = kind /\ OccursAs(ps[k].written, name)}

\* C15: the patterns are tried in priority order and the first that matches
\* wins: when a heading carries the name the body under the first such heading
\* is returned, also when a bold text or a colon label with the name stands
\* before it; without such a heading the first bold text with the name wins
\* over any colon label; without either, the first colon label; when nothing
\* carries the name the result is None.
C15_PriorityOrder ==
    (seg_pc = "returned" /\ seg_fn = "subcategory") =>
        \A ps \in PieceLists :
            seg_content = PiecesText(ps, 1) =>
                LET headings == PiecesOf(ps, "heading", seg_name)
                    bolds == PiecesOf(ps, "bold", seg_name)
                    labels == PiecesOf(ps, "label", seg_name)
                IN  IF headings # {}
                    THEN /\ seg_section.found
                         /\ IsPrefix(<<"finding">> \o Decimal(Min(headings)),
                                     seg_section.text)
                    ELSE IF bolds # {}
                    THEN /\ seg_section.found
                         /\ IsPrefix(Piece("bold", ps[Min(bolds)].written, Min(bolds)),
                                     seg_section.text)
                    ELSE IF labels # {}
                    THEN /\ seg_section.found
                         /\ IsPrefix(Piece("label", ps[Min(labels)].written, Min(labels)),
                                     seg_section.text)
                    ELSE ~seg_section.found

\* C15 witness: a colon label with the name stands before a heading with the
\* name, and the body under the heading was returned.
C15_Witness ==
    /\ seg_pc = "returned" /\ seg_fn = "subcategory" /\ seg_name = <<"Auth">>
    /\ seg_content = <<"Auth", ":", " ", "finding", "1", "\n",
                       "#", "#", " ", "Auth", "\n", "finding", "2">>
    /\ seg_section = [found |-> TRUE, text |-> <<"finding", "2">>]

\* C16: a punctuation character of the name is taken literally: the call
\* returns, a heading that carries the name verbatim is found, and a response
\* in which the name is only written with another character or with no
\* character at the place of the punctuation gives None.
C16_LiteralPunctuation ==
    (seg_pc = "returned" /\ seg_fn = "subcategory" /\ seg_name = <<"SQL", "-", "Injection">>) =>
        \A ps \in PieceLists :
            seg_content = PiecesText(ps, 1) =>
                /\ (\E k \in DOMAIN ps :
                       ps[k].kind = "heading" /\ Verbatim(ps[k].written, seg_name))
                     => seg_section.found
                /\ (\A k \in DOMAIN ps : ~Verbatim(ps[k].written, seg_name))
                     => ~seg_section.found

\* ------------------------------ claims about format_results_markdown
\* The part of the report about the k-th file: from its `## <basename>` line
\* to that of the next file.
BlockOfFile(md, results, k) ==
    LET Heading(j) == <<"#", "#", " ">> \o Basename(results[j].file_path) \o <<"\n">>
        from == Find(md, Heading(k))
        to == IF k < Len(results) THEN Find(md, Heading(k + 1)) ELSE Len(md)
    IN  IF from = -1 \/ to = -1 THEN <<>> ELSE Slice(md, from, to)

\* The number of places of the text where lit stands.
Occurrences(t, lit) == Cardinality({p \in 1..Len(t) : EqualsAt(t, p, lit)})

\* The a-th record shares its content with another record of its file and
\* category.
SharesContent(analyses, a) ==
    \E b \in DOMAIN analyses :
        /\ b # a
        /\ analyses[b].category = analyses[a].category
        /\ analyses[b].content = analyses[a].content

\* The categories of a file in which some record holds the content.
CategoriesWith(analyses, content) ==
    {analyses[a].category : a \in {b \in DOMAIN analyses : analyses[b].content = content}}

\* C17: within one file and category the records with identical content are
\* grouped: the shared content is printed once (not once per record), and the
\* subcategory of every record that shares it is a `#### <subcategory>` label
\* of the file's part of the report, also when no subcategory section can be
\* extracted from the content.
C17_SharedContentLabelled ==
    report_pc = "returned" =>
        \A k \in DOMAIN report_results :
            LET analyses == report_results[k].analyses
                block == BlockOfFile(markdown, report_results, k)
            IN  \A a \in DOMAIN analyses :
                    SharesContent(analyses, a) =>
                        /\ Find(block, <<"#", "#", "#", "#", " ">>
                                           \o analyses[a].subcategory \o <<"\n", "\n">>) # -1
                        /\ Occurrences(block, analyses[a].content)
                              <= Cardinality(CategoriesWith(analyses, analyses[a].content))

\* -------------------------------------------------------- claims about main
\* load_prompt_repository could not load the definitions file.
RepositoryNotLoaded == repo_file \in {"missing", "malformed"}

\* C18: when the prompt-repository file is missing or malformed, main calls
\* scan_file on no file and the process ends with a non-zero exit code.
C18_RepositoryErrorFatal ==
    (RepositoryNotLoaded /\ mpc # "start") =>
        /\ scanned = <<>>
        /\ mpc = "exited" => exit_code # 0

\* The files of the scanned path that can be scanned: .py files that are not
\* ignored, can be read and are not empty.
ScannableFiles == {i \in DOMAIN scan_path.files : scan_path.files[i] = "code"}

\* C19: with the repository loaded and every category selected, the process
\* ends with a non-zero exit code when the scanned path holds no scannable
\* file, and with exit code 0 when it holds one, whatever goes wrong with the
\* other files or with the gateway calls.
C19_ScanLevelFailure ==
    (repo_file = "ok" /\ arg_categories = <<>> /\ mpc = "exited") =>
        (exit_code # 0 <=> ScannableFiles = {})

\* ---------------------------------- claims about get_prompts_for_language
\* The categories of the language that a filter selects, in definition order,
\* each once; every category when no filter is given.
SelectedInDefinitionOrder(cats) ==
    LET Selected(category) == cats = <<>> \/ InList(category, cats)
    IN  SelectSeq(RepositoryCategories, Selected)

\* C20: with a repository, get_prompts_for_language returns the templates of
\* the categories named in the filter (of every category without a filter),
\* each once and in definition order, whatever the order or the repetition of
\* the names in the filter; a name that is no category of the language adds
\* nothing and changes nothing.
C20_DefinitionOrder ==
    (prompts_pc = "returned" /\ prompt_repository = "loaded") =>
        language_prompts =
            GatherPrompts(SelectedInDefinitionOrder(prompt_categories), prompt_subcategories)

\* -------------------------------------- claims about skipped files and batches
\* The file cannot be read or holds nothing but white space.
IsSkippedFile(path) == ~fs[path].readable \/ fs[path].size = 0

\* The files of the batch that are not skipped, in batch order.
KeptFiles(fb) ==
    LET Kept(path) == ~IsSkippedFile(path)
    IN  SelectSeq(fb, Kept)

\* C21: a blank or unreadable file is skipped and the scan goes on.  No record
\* is ever kept for such a file; a batch (or a single-file scan) of such files
\* alone makes no gateway call and returns no result; the other files of a
\* batch are all combined into the prompt text, the finished scan has sent
\* every prompt of the selected subcategories, and a file whose section an
\* answered call carries has its records.
C21_SkippedFilesIsolated ==
    /\ entry = "batch" =>
          LET kept == KeptFiles(file_batch)
          IN  /\ \A k \in DOMAIN batch_results :
                    ~IsSkippedFile(batch_results[k].file_path)
              /\ kept = <<>> =>
                    calls = <<>> /\ batch_results = <<>> /\ spc \in {"start", "done"}
              /\ (kept # <<>> /\ spc # "start") =>
                    /\ [j \in DOMAIN file_info |-> file_info[j].file_path] = kept
                    /\ \A j \in DOMAIN kept :
                          Find(combined_content, FileContent(kept[j])) # -1
              /\ (kept # <<>> /\ spc = "done") =>
                    [k \in DOMAIN calls |-> calls[k].units]
                        = ExpectedBatchCalls(categories, subcategories)
              /\ (spc = "compose" /\ response.ok) =>
                    \A j \in DOMAIN file_info :
                        IsTruthy(extract_file_section(response.text, file_info[j].file_marker))
                            => AnalysesOf(batch_results, result, file_info[j].file_path) # <<>>
    /\ (entry = "file" /\ IsSkippedFile(file_batch[1])) =>
          calls = <<>> /\ result.none /\ spc \in {"start", "done"}

\* C21 witness: a finished batch scan of a skipped file and a file with
\* content: calls were made and the file with content has its records, the
\* skipped one none.
C21_Witness ==
    /\ entry = "batch" /\ spc = "done" /\ Len(file_batch) = 2
    /\ IsSkippedFile(file_batch[1]) /\ ~IsSkippedFile(file_batch[2])
    /\ \E k \in DOMAIN calls : calls[k].ok
    /\ Len(batch_results) = 1
    /\ batch_results[1].file_path = file_batch[2]
    /\ batch_results[1].analyses # <<>>

\* ---------------------------------------------- claims about the composer
\* The id names a subcategory of the category in the repository.
IdExists(category, id) ==
    /\ HasCategory(category)
    /\ \E k \in DOMAIN Repository[category] : Repository[category][k].id = id

\* The ids of the list that exist in the category, in list order.
ExistingIds(category, ids) ==
    LET Exists(id) == IdExists(category, id)
    IN  SelectSeq(ids, Exists)

\* C22: for a subcategory batch that is empty or holds no id of the repository
\* the composer gives no prompt and no details: get_batch_formatted_prompt
\* returns (None, []), the composition in scan_file_batch leaves the batch
\* without a prompt (no call, no record).  Otherwise, with a repository, there
\* is a prompt and the details are those of the ids that exist, in order.
C22_NoPromptWithoutSubcategory ==
    comp_pc = "returned" =>
        LET existing == ExistingIds(comp_category, comp_ids)
        IN  /\ existing = <<>> => comp_prompt.none /\ comp_details = <<>>
            /\ (existing # <<>> /\ comp_repository = "loaded") =>
                  /\ ~comp_prompt.none
                  /\ [k \in DOMAIN comp_details |-> comp_details[k].id] = existing

\* C22 witness: the composer returned no prompt and no details for a batch of
\* ids none of which the category has.
C22_Witness ==
    /\ comp_pc = "returned"
    /\ comp_ids # <<>>
    /\ comp_repository = "loaded" /\ HasCategory(comp_category)
    /\ ExistingIds(comp_category, comp_ids) = <<>>
    /\ comp_prompt.none /\ comp_details = <<>>

\* ------------------------------------------- claims about estimate_tokens
\* C23: estimate_tokens(text) is the floor of len(text) / 4: the one integer r
\* with 4r <= len(text) < 4r + 4; it is 0 for a text of fewer than 4
\* characters, never negative, and no shorter text has a greater estimate.
C23_FloorOfQuarter ==
    est_pc = "returned" =>
        /\ 4 * est_result <= Len(est_text)
        /\ Len(est_text) < 4 * est_result + 4
        /\ est_result >= 0
        /\ Len(est_text) < 4 => est_result = 0
        /\ \A n \in 0..Len(est_text) : estimate_tokens(n) <= est_result

\* C23 witness: a text of 5 characters was estimated at 1 token.
C23_Witness == est_pc = "returned" /\ Len(est_text) = 5 /\ est_result = 1

\* ------------------------------------------------ claims about greedy batching
\* C24: batching is greedy.  With every file readable, any two consecutive
\* batches B, B' of the returned list satisfy cost(B) + cost(first file of B')
\* > max_tokens - 2000: a batch is closed only when the next file does not fit.
C24_Greedy ==
    (gpc = "done" /\ AllReadable) =>
        \A k \in 1..(Len(batches) - 1) :
            BatchCost(batches[k]) + Cost(batches[k + 1][1]) > Budget

\* C24 witness: a returned list of two batches, the first filled with two
\* files, under a positive budget.
C24_Witness ==
    /\ gpc = "done" /\ AllReadable /\ Budget > 0
    /\ Len(batches) = 2
    /\ Len(batches[1]) = 2
    /\ BatchCost(batches[1]) <= Budget

\* -------------------------------------------------- claims about CodeAnalyzer
\* The calls a file asks for: every prompt for every chunk, chunk by chunk.
CallsOfFile(f) ==
    LET n == Len(an_prompts)
    IN  [k \in 1..(an_files[f].chunks * n) |->
            [file |-> f, chunk |-> (k - 1) \div n, prompt |-> ((k - 1) % n) + 1]]

\* The calls the scan of the directory asks for.
AnalyzerExpectedCalls ==
    Concat([f \in DOMAIN an_files |->
               IF an_files[f].readable THEN CallsOfFile(f) ELSE <<>>])

\* The issues of the calls that were answered with one, in call order.
IssuesOfCalls ==
    LET Answered(c) == c.outcome = "issue"
        answered == SelectSeq(an_calls, Answered)
    IN  [k \in DOMAIN answered |->
            Issue(an_prompts[answered[k].prompt], answered[k].file, answered[k].chunk)]

\* C25: whatever call fails, the finished scan_codebase has called the API
\* for every prompt of every chunk of every readable file, in order, has gone
\* through every file, and its result holds the issues of all the calls that
\* were answered with issues.
C25_SiblingsNotAborted ==
    an_pc = "done" =>
        /\ [k \in DOMAIN an_calls |->
               [file |-> an_calls[k].file, chunk |-> an_calls[k].chunk,
                prompt |-> an_calls[k].prompt]] = AnalyzerExpectedCalls
        /\ an_results.issues = IssuesOfCalls
        /\ an_results.files_scanned = Len(an_files)
        /\ an_results.total_issues = Len(IssuesOfCalls)

\* C25 witness: the first call of a scan of two files failed, the scan went
\* on to the second prompt, the second chunk and the second file, and the
\* result holds their issues.
C25_Witness ==
    /\ an_pc = "done" /\ Len(an_files) = 2
    /\ an_files[1].readable /\ an_files[1].chunks = 2 /\ an_files[2].readable
    /\ an_calls # <<>>
    /\ an_calls[1].outcome = "error"
    /\ \E i, j, k \in DOMAIN an_results.issues :
          /\ an_results.issues[i].file_path = 1 /\ an_results.issues[i].chunk_index = 0
          /\ an_results.issues[j].file_path = 1 /\ an_results.issues[j].chunk_index = 1
          /\ an_results.issues[k].file_path = 2

\* -------------------------------------------------------- claims about the UI
\* The page shows a result (the subheader of the category followed by its
\* issues, its "no issues" note or its own error) for the i-th category.
ShowsResultOf(i) ==
    \E k \in DOMAIN ui_shown :
        /\ ui_shown[k].kind = "subheader"
        /\ ui_shown[k].text = analysis_type[i]
        /\ Cardinality({j \in 1..(k - 1) : ui_shown[j].kind = "subheader"}) = i - 1

\* C26: when the analysis of the selected categories is over, the page shows
\* one result per selected category, the i-th under the i-th category, and a
\* failure is shown as the error of its category, never as an error of the
\* whole analysis.
C26_ResultPerCategory ==
    (ui_pc = "done" /\ ui_code # <<>>) =>
        /\ \A i \in DOMAIN analysis_type : ShowsResultOf(i)
        /\ \A k \in DOMAIN ui_shown :
              ui_shown[k] # Shown("error", "An error occurred during analysis")

\* ------------------------------------------- claims about the gateway calls
\* ceil(n / 3)
CeilThird(n) == (n + 2) \div 3

RECURSIVE BatchCallCount(_, _)
\* The sum over the categories cats that the language has of ceil(n_c / 3),
\* n_c the number of selected subcategories of the category.
BatchCallCount(cats, subs) ==
    IF cats = <<>> THEN 0
    ELSE (IF HasCategory(Head(cats))
          THEN CeilThird(Len(SelectedSubcategories(Head(cats), subs)))
          ELSE 0)
         + BatchCallCount(Tail(cats), subs)

\* The number of calls the running scan has to make.
ExpectedCallCount ==
    IF entry = "batch" THEN BatchCallCount(categories, subcategories)
    ELSE CeilThird(Len(get_prompts_for_language(categories, subcategories)))

\* The scan that got as far as its batch loop has returned and made the
\* expected number of calls, whatever the number of files.
CallCountMet == (spc = "done" /\ ScanStarted) => Len(calls) = ExpectedCallCount

\* One call at a time: a call is made only after a prompt was composed, and
\* an answer that was received is aggregated (or parsed) before anything else
\* happens.
OneCallAtATime ==
    /\ calls' # calls => (spc = "call" /\ Len(calls') = Len(calls) + 1)
    /\ spc' = "call" => (spc = "compose" /\ calls' = calls)
    /\ spc = "aggregate" => (spc' = "compose" /\ bi' = bi + 1 /\ calls' = calls)

\* The scan is over: the function returned or the process ended.
ScanOver == spc \in {"done", "exited"}

\* C27: the calls are made one at a time, each answer is aggregated before the
\* next prompt is composed; a scan_file_batch that returns has made the sum
\* over its categories of ceil(n_c / 3) calls, a scan_file that returns has
\* made ceil(N / 3) calls, whatever the number of files; and the scan ends
\* when every call returns or fails.
C27_SequentialCalls == []CallCountMet /\ [][OneCallAtATime]_vars /\ <>ScanOver

\* C27 witness: a batch of two files with content was scanned for every
\* category: three calls (two for the four security subcategories, one for
\* performance), one of them failed.
C27_Witness ==
    /\ entry = "batch" /\ spc = "done" /\ Len(file_info) = 2
    /\ subcategories = <<>>
    /\ Len(calls) = 3
    /\ \E k \in DOMAIN calls : ~calls[k].ok

\* ----------------------------------- claims about parse_batch_response
\* The position in par_prompts of the prompt a record was made for.
PromptIndex(rec) ==
    CHOOSE k \in DOMAIN par_prompts : par_prompts[k].subcategory_id = rec.subcategory_id

\* The content of the record is a non-empty span of the response that starts
\* at the header of the record's own prompt and ends just before the header
\* of the next prompt (at the end of the text when there is none).
IsOwnSection(rec) ==
    LET k == PromptIndex(rec)
        start == HeaderPosition(par_response, k, par_prompts[k])
        end == SectionEnd(par_response, k, par_prompts)
    IN  /\ rec.content # <<>>
        /\ start # -1
        /\ start < end
        /\ EqualsAt(rec.content, 1, AltSectionHeader(k))
        /\ rec.content = Strip(Slice(par_response, start, end))

\* C28: every record parse_batch_response returns has as content the whole
\* response or a non-empty span that starts at its own prompt's header and
\* ends just before the next prompt's header, in whatever order the headers
\* stand in the response.
C28_ContentIsOwnSection ==
    par_pc = "returned" =>
        \A n \in DOMAIN par_analyses :
            \/ par_analyses[n].content = par_response
            \/ IsOwnSection(par_analyses[n])

\* ------------------------------------------- claims about a directory scan
\* C29: a directory scan that produced at least one file result ends with the
\* report written and exit code 0.
C29_DirectoryReportWritten ==
    (mpc = "exited" /\ scan_path.kind = "dir" /\ main_result # <<>>) =>
        (exit_code = 0 /\ exit_cause = "return")

\* ------------------------------------------------ claims about chunk_code
\* The chunk is made of two or more lines.
HasSeveralLines(chunk) == \E p \in DOMAIN chunk : chunk[p] = "\n"

\* C30: chunk_code returns a non-empty list; its chunks joined with a newline
\* are the code; a chunk of two or more lines has at most max_tokens * 5
\* characters.
C30_ChunksRestoreCode ==
    chk_pc = "returned" =>
        /\ chk_chunks # <<>>
        /\ JoinLines(chk_chunks) = chk_code
        /\ \A k \in DOMAIN chk_chunks :
               HasSeveralLines(chk_chunks[k]) => Len(chk_chunks[k]) <= chk_max_tokens * 5

\* C30 witness: the code was split; one chunk has two lines, another is a
\* single line longer than the bound.
C30_Witness ==
    /\ chk_pc = "returned"
    /\ Len(chk_chunks) >= 2
    /\ \E k \in DOMAIN chk_chunks : HasSeveralLines(chk_chunks[k])
    /\ \E k \in DOMAIN chk_chunks :
           ~HasSeveralLines(chk_chunks[k]) /\ Len(chk_chunks[k]) > chk_max_tokens * 5

====
